---- MODULE Spec2Model ----
(***************************************************************************)
(* Cellevo: a cellular automaton evolved and rendered by a pool of workers *)
(* that share one packed grid.  The coordinator (the page script) posts    *)
(* commands to the workers, counts their completion notifications in       *)
(* `waiting` and runs a phase-transition policy whenever the counter is    *)
(* back at the number of workers.                                          *)
(*                                                                         *)
(* Granularity.  Every event handler of the coordinator and every command  *)
(* of a worker runs to completion in its own thread, but the threads run   *)
(* in parallel.  A worker command is therefore two steps (WorkerReceive,   *)
(* WorkerComplete) and the coordinator's barrier policy is executed one    *)
(* operation at a time (PolicyStep) while it accepts no other event.       *)
(* Timers fire at arbitrary times, so every delay is covered.              *)
(***************************************************************************)
EXTENDS Integers, Sequences, FiniteSets, TLC

(***************************************************************************)
(* Bounds of the model.                                                    *)
(***************************************************************************)
\* navigator.hardwareConcurrency of the machine the page runs on
HardwareConcurrency == 3
\* commands the user issues in one behaviour (clicks, keys, buttons)
MaxUserCommands == 2
\* largest numOfPasses that random() draws (the code draws from 1..8)
MaxPasses == 3
\* largest radius of one random pass
MaxRadius == 1

\* initMatrix stepped on its own: xLen in 1..MaxPartX, yLen in 1..MaxPartY,
\* workersController.count in 1..MaxPartN
MaxPartX == 3
MaxPartY == 5
MaxPartN == 3
\* evolve on its own: alive cells of the generation it starts from
MaxAlive == 3

\* (offsetWidth, offsetHeight) of the canvas parent, in cells, that
\* initMatrix may find
NodeDims == {<<1, 1>>}
\* (xLen, yLen) of the grids evolve is run on
EvolveDims == {<<3, 3>>}
\* the (rule, num) buttons and keys of switchRule that the user presses
RuleKeys == {<<"b", 0>>}

(***************************************************************************)
(* State                                                                   *)
(***************************************************************************)
VARIABLES
    \* CellsState (the shared buffer)
    xLen, yLen, leftArray, rightArray, lastStateArray, indication,
    \* workersController and the page
    waiting, pool, rules, aliveCells, canvasDOM, canvasVisible,
    \* the commands the user has issued so far
    userCommands,
    \* loop
    running, timerArmed,
    \* the operations of relay's policy still to execute
    todo,
    \* the workers: command in progress, notifications posted and not yet
    \* relayed, and the module-level state of each worker script
    cur, outbox, wScope, wRules,
    \* history: messages dispatched / acknowledged per type since the last
    \* barrier, the last barrier, the phase of the current tick
    sent, acked, fired, tick,
    \* the loop of initMatrix, stepped: its inputs (xLen, yLen, count), the
    \* loop variables i and arrayScopePool, the scopes posted so far
    pX, pY, pN, pI, arrayScopePool, pScopes,
    \* a function run on its own: its last call, with the inputs and the
    \* operations it performed
    call,
    \* which SharedArrayBuffer the page's cellsState is a view of (the number
    \* of buffers allocated after the first) and which one each worker's is
    sharedBuffer, wBuffer,
    \* the page's lifetime: the resize events so far, the workers whose relay
    \* threw, onDestroy has run
    resizes, faulted, terminated,
    \* frequencyController: value, and the pending timer of a held Hz button
    \* with the direction of the change
    frequencyValue, hzTimer

gridVars == <<xLen, yLen, leftArray, rightArray, lastStateArray, indication>>
coordVars == <<waiting, pool, rules, aliveCells, canvasDOM, canvasVisible,
               running, timerArmed, todo>>
userVars == <<userCommands>>
workerVars == <<cur, outbox, wScope, wRules>>
histVars == <<sent, acked, fired, tick>>
partVars == <<pX, pY, pN, pI, arrayScopePool, pScopes>>
callVars == <<call>>
lifeVars == <<sharedBuffer, wBuffer, resizes, faulted, terminated, frequencyValue, hzTimer>>
vars == <<gridVars, coordVars, userVars, workerVars, histVars, partVars,
         callVars, lifeVars>>

(***************************************************************************)
(* Messages                                                                *)
(***************************************************************************)
INIT == "<INIT>"
EVOLVE == "<EVOLVE>"
RENDER == "<RENDER>"
CHANGERULES == "<CHANGE-RULES>"
RANDOM == "<RANDOM>"
CLEAR == "<CLEAR>"
WAITINGAFTER == "<WAITING-AFTER>"
ERROR == "<ERROR>"
NONE == "<NONE>"

CommandTags == {INIT, EVOLVE, RENDER, CHANGERULES, RANDOM, CLEAR}

Msg(type, input) == [type |-> type, input |-> input]
NoInput == [none |-> TRUE]
NoMsg == Msg(NONE, NoInput)

DefaultRules == [b |-> {3}, s |-> {2, 3}]

\* navigator.hardwareConcurrency where the browser does not provide it
UNDEFINED == -1

\* variant: no fallback for a hint below 2
threadsNNoFallback(hardwareConcurrency) ==
    IF hardwareConcurrency = UNDEFINED THEN 3 ELSE hardwareConcurrency - 1

\* threadsN; undefined >= 2 is false
threadsN(hardwareConcurrency) ==
    (IF hardwareConcurrency # UNDEFINED /\ hardwareConcurrency >= 2
     THEN hardwareConcurrency ELSE 4) - 1

count == threadsN(HardwareConcurrency)
Workers == 0 .. (count - 1)

(***************************************************************************)
(* CellsState                                                              *)
(***************************************************************************)
Cells(xl, yl) == 0 .. (xl * yl - 1)
ZeroArray(xl, yl) == [k \in Cells(xl, yl) |-> 0]

CurrentIsLeft == indication = 0
\* variant: getNext selecting the array getCurrent selects
NextIsLeftAliased == indication = 0
NextIsLeft == indication = 1
getCurrent == IF CurrentIsLeft THEN leftArray ELSE rightArray
getNext == IF NextIsLeft THEN leftArray ELSE rightArray
\* variant: a switchIndication that counts up
switchIndicationCounting(ind) == ind + 1
switchIndication(ind) == IF ind = 0 THEN 1 ELSE 0

\* the arrays after `arr` has been stored as current() / as next()
WriteCurrent(arr) ==
    /\ leftArray' = IF CurrentIsLeft THEN arr ELSE leftArray
    /\ rightArray' = IF CurrentIsLeft THEN rightArray ELSE arr
WriteNext(arr) ==
    /\ leftArray' = IF NextIsLeft THEN arr ELSE leftArray
    /\ rightArray' = IF NextIsLeft THEN rightArray ELSE arr

(***************************************************************************)
(* CellsMachine                                                            *)
(***************************************************************************)
Offsets == {d \in (-1 .. 1) \X (-1 .. 1) : ~(d[1] = 0 /\ d[2] = 0)}

\* the index of the toroidal neighbour of (x, y) at offset d = <<dx, dy>>
\* variant: neighbours past an edge taken from the edge itself
NeighborIndexClamped(x, y, d, xl, yl) ==
    LET Clamp(v, n) == IF v < 0 THEN 0 ELSE IF v >= n THEN n - 1 ELSE v
    IN (Clamp(y + d[2], yl) * xl) + Clamp(x + d[1], xl)

NeighborIndex(x, y, d, xl, yl) ==
    (((y + d[2] + yl) % yl) * xl) + ((x + d[1] + xl) % xl)

\* variant: a count that includes the cell itself
aliveNeighborsWithSelf(cs, index, xl, yl) ==
    Cardinality({d \in (-1 .. 1) \X (-1 .. 1) :
        cs[NeighborIndex(index % xl, index \div xl, d, xl, yl)] = 1})

aliveNeighbors(cs, index, xl, yl) ==
    LET x == index % xl
        y == index \div xl
    IN Cardinality({d \in Offsets : cs[NeighborIndex(x, y, d, xl, yl)] = 1})

\* variant: an alive cell tested against the birth rule
evolveCellBornOnly(cs, index, xl, yl, r) ==
    IF aliveNeighbors(cs, index, xl, yl) \in r.b THEN 1 ELSE 0

evolveCell(cs, index, xl, yl, r) ==
    LET isAlive == cs[index] = 1
        n == aliveNeighbors(cs, index, xl, yl)
    IN IF ~isAlive /\ n \in r.b THEN 1
       ELSE IF isAlive /\ n \in r.s THEN 1
       ELSE 0

\* variant: an evolve that sees only the cells of its own partition
evolveWithinScope(cs, ns, start, end, xl, yl, r) ==
    LET own == [k \in DOMAIN cs |-> IF k >= start /\ k < end THEN cs[k] ELSE 0]
    IN [k \in DOMAIN ns |->
           IF k >= start /\ k < end THEN evolveCell(own, k, xl, yl, r)
           ELSE ns[k]]

\* next() after evolve() over [start, end): cs is current(), ns is next()
evolve(cs, ns, start, end, xl, yl, r) ==
    [k \in DOMAIN ns |->
        IF k >= start /\ k < end THEN evolveCell(cs, k, xl, yl, r) ELSE ns[k]]

\* variant: a clear() that marks the cells the way initMatrix marks
\* lastStateArray
clearWithMarker(cs, start, end) ==
    [k \in DOMAIN cs |-> IF k >= start /\ k < end THEN 2 ELSE cs[k]]

\* current() after clear() over [start, end)
clear(cs, start, end) ==
    [k \in DOMAIN cs |-> IF k >= start /\ k < end THEN 0 ELSE cs[k]]

\* the arrays one pass of random() can leave: every cell within `radius` of
\* a random centre gets a random bit
RandomPass(cs, xl, yl) ==
    { [k \in DOMAIN cs |->
          LET dx == (k % xl) - c[1]
              dy == (k \div xl) - c[2]
          IN IF dx * dx + dy * dy <= radius * radius THEN bits[k] ELSE cs[k]] :
        c \in (0 .. xl) \X (0 .. yl), radius \in 0 .. MaxRadius,
        bits \in [DOMAIN cs -> {0, 1}] }

RECURSIVE random(_, _, _, _)
random(cs, passes, xl, yl) ==
    IF passes <= 0 \/ DOMAIN cs = {} THEN {cs}
    ELSE UNION {RandomPass(c, xl, yl) : c \in random(cs, passes - 1, xl, yl)}

(***************************************************************************)
(* CellsRenderer                                                           *)
(***************************************************************************)
\* variant: a draw() that brings the whole of lastStateArray up to date
drawWholeArray(cs, last, start, end) == [k \in DOMAIN last |-> cs[k]]

\* lastStateArray after draw() over [start, end)
draw(cs, last, start, end) ==
    [k \in DOMAIN last |-> IF k >= start /\ k < end THEN cs[k] ELSE last[k]]

\* the canvas operations of draw() over [start, end), in the order of the
\* loop: drawCell or clearCell at (x, y) of the worker's own canvas, each
\* followed by the write of lastStateArray[index]
RECURSIVE drawOpsFrom(_, _, _, _, _, _)
drawOpsFrom(cs, last, index, start, end, xl) ==
    IF index >= end THEN <<>>
    ELSE LET x == (index - start) % xl
             y == (index - start) \div xl
             valueAtCurrentIndex == cs[index]
         IN (IF valueAtCurrentIndex # last[index]
             THEN << [op |-> IF valueAtCurrentIndex # 0
                             THEN "drawCell" ELSE "clearCell",
                      x |-> x, y |-> y, index |-> index] >>
             ELSE <<>>)
            \o drawOpsFrom(cs, last, index + 1, start, end, xl)

\* variant: a draw that stamps or clears whether or not the cell changed
drawOpsAlways(cs, last, start, end, xl) ==
    drawOpsFrom(cs, [k \in DOMAIN last |-> 2], start, start, end, xl)

\* variant: a draw that never clears
drawOpsAliveOnly(cs, last, start, end, xl) ==
    SelectSeq(drawOpsFrom(cs, last, start, start, end, xl),
              LAMBDA o : o.op = "drawCell")

drawOps(cs, last, start, end, xl) ==
    drawOpsFrom(cs, last, start, start, end, xl)

(***************************************************************************)
(* initMatrix: the partition of the grid                                   *)
(***************************************************************************)
\* variant: the rows of a worker without the remainder term
arrayScopeYLenFloor(i, yl, n) == yl \div n
arrayScopeYLen(i, yl, n) == (yl \div n) + (IF i < yl % n THEN 1 ELSE 0)

\* one iteration of the loop: the scope of worker i, given arrayScopePool
ScopeOf(poolOffset, i, xl, yl, n) ==
    [start |-> poolOffset, end |-> poolOffset + arrayScopeYLen(i, yl, n) * xl]

RECURSIVE ScopesFrom(_, _, _, _, _)
ScopesFrom(poolOffset, i, xl, yl, n) ==
    IF i >= n THEN <<>>
    ELSE LET sc == ScopeOf(poolOffset, i, xl, yl, n)
         IN <<sc>> \o ScopesFrom(sc.end, i + 1, xl, yl, n)

\* the scopes of workers 0 .. n-1, as a sequence (worker i at i + 1)
Scopes(xl, yl, n) == ScopesFrom(0, 0, xl, yl, n)

(***************************************************************************)
(* History: the Evolve and Render messages dispatched, and their           *)
(* completions relayed, since the last barrier.  A counter stops at        *)
(* count + 1, which stands for "more than one broadcast".                  *)
(***************************************************************************)
TickTags == {EVOLVE, RENDER}
ZeroTags == [t \in TickTags |-> 0]
Count(f, type, k) ==
    IF type \in TickTags
    THEN [f EXCEPT ![type] = IF @ + k > count THEN count + 1 ELSE @ + k]
    ELSE f
NoFire == [tag |-> NONE, acks |-> ZeroTags, sent |-> ZeroTags, flips |-> 0]

(***************************************************************************)
(* workersController.post                                                  *)
(***************************************************************************)
\* variant: a range test that lets the index one past the pool through
PostTargetsPastEnd(specificWorker) ==
    IF specificWorker > -1 /\ specificWorker <= count
    THEN {specificWorker} ELSE Workers

PostTargets(specificWorker) ==
    IF specificWorker > -1 /\ specificWorker < count
    THEN {specificWorker} ELSE Workers

\* variant: a broadcast that counts as one dispatched command
PostCountingOnce(st, specificWorker, msg) ==
    LET t == PostTargets(specificWorker)
    IN [pool |-> [i \in Workers |->
                    IF i \in t THEN Append(st.pool[i], msg) ELSE st.pool[i]],
        waiting |-> st.waiting - 1]

\* st = [pool, waiting] before, the result after post(specificWorker, msg)
Post(st, specificWorker, msg) ==
    LET t == PostTargets(specificWorker)
    IN [pool |-> [i \in Workers |->
                    IF i \in t THEN Append(st.pool[i], msg) ELSE st.pool[i]],
        waiting |-> st.waiting - Cardinality(t)]

PostState == [pool |-> pool, waiting |-> waiting]

SetPostState(st) ==
    /\ pool' = st.pool
    /\ waiting' = st.waiting


AliveCount(cs) == Cardinality({k \in DOMAIN cs : cs[k] = 1})

(***************************************************************************)
(* The state after construction: an empty CellsState(0, 0), a pool of      *)
(* `count` workers that have received nothing, the loop stopped.           *)
(***************************************************************************)
NoScope == [start |-> 0, end |-> 0]

InitPartition ==
    /\ pX = 0 /\ pY = 0 /\ pN = 1 /\ pI = 1
    /\ arrayScopePool = 0
    /\ pScopes = <<NoScope>>

NoCall == [op |-> NONE]
InitCall == call = NoCall

\* a worker script before its first <INIT>: cellsState is undefined
NoBuffer == -1

\* the page before onMount: cellsState = new CellsState(0, 0)
InitLife ==
    /\ sharedBuffer = 0
    /\ wBuffer = [i \in Workers |-> NoBuffer]
    /\ resizes = 0
    /\ faulted = {}
    /\ terminated = FALSE
    /\ frequencyValue = 1
    /\ hzTimer = NONE

\* the page once every worker has handled the <INIT> of the first grid
InitAttached ==
    /\ sharedBuffer = 1
    /\ wBuffer = [i \in Workers |-> 1]
    /\ resizes = 0
    /\ faulted = {}
    /\ terminated = FALSE
    /\ frequencyValue = 1
    /\ hzTimer = NONE

InitHistory ==
    /\ sent = ZeroTags
    /\ acked = ZeroTags
    /\ fired = NoFire
    /\ tick = "none"

InitProgram ==
    /\ xLen = 0 /\ yLen = 0
    /\ leftArray = ZeroArray(0, 0)
    /\ rightArray = ZeroArray(0, 0)
    /\ lastStateArray = ZeroArray(0, 0)
    /\ indication = 0
    /\ waiting = count
    /\ pool = [i \in Workers |-> <<>>]
    /\ rules = DefaultRules
    /\ aliveCells = 0
    /\ canvasDOM = FALSE
    /\ canvasVisible = FALSE
    /\ userCommands = 0
    /\ running = FALSE
    /\ timerArmed = FALSE
    /\ todo = <<>>
    /\ cur = [i \in Workers |-> NoMsg]
    /\ outbox = [i \in Workers |-> <<>>]
    /\ wScope = [i \in Workers |-> NoScope]
    /\ wRules = [i \in Workers |-> DefaultRules]
    /\ InitHistory
    /\ InitLife

Init == InitProgram /\ InitPartition /\ InitCall

(***************************************************************************)
(* The coordinator's handlers.  Each starts only when relay's policy has   *)
(* run to its end (todo = <<>>), and forgets the last barrier.             *)
(***************************************************************************)
Handler == todo = <<>>

\* a command of the user: the page accepts clicks and keys once the canvas
\* is visible
UserCommand ==
    /\ Handler
    /\ canvasVisible
    /\ userCommands < MaxUserCommands
    /\ userCommands' = userCommands + 1

\* initMatrix, run by showCanvasAction when the canvas is put into the DOM
\* (onMount, or debouncedShowCanvas after a resize)
initMatrix(xl, yl) ==
    LET same == xl = xLen /\ yl = yLen
        sc == Scopes(xl, yl, count)
        buffer == IF same THEN sharedBuffer ELSE sharedBuffer + 1
        InitMsg(i) == Msg(INIT, [xLen |-> xl, yLen |-> yl, rules |-> rules,
                                 sharedBuffer |-> buffer,
                                 arrayScopeOffsetStart |-> sc[i + 1].start,
                                 arrayScopeOffsetEnd |-> sc[i + 1].end])
        PostInits[i \in 0 .. count] ==
            IF i = 0 THEN PostState
            ELSE Post(PostInits[i - 1], i - 1, InitMsg(i - 1))
    IN /\ xLen' = xl
       /\ yLen' = yl
       /\ sharedBuffer' = buffer
       /\ leftArray' = IF same THEN leftArray ELSE ZeroArray(xl, yl)
       /\ rightArray' = IF same THEN rightArray ELSE ZeroArray(xl, yl)
       /\ lastStateArray' = IF same THEN [k \in DOMAIN lastStateArray |-> 2]
                            ELSE ZeroArray(xl, yl)
       /\ indication' = IF same THEN indication ELSE 0
       /\ SetPostState(PostInits[count])

ShowCanvas(xl, yl) ==
    /\ Handler
    /\ ~canvasDOM
    /\ canvasDOM' = TRUE
    /\ initMatrix(xl, yl)
    /\ fired' = NoFire
    /\ UNCHANGED <<rules, aliveCells, canvasVisible, running, timerArmed, todo,
                   userVars, workerVars, sent, acked, tick, partVars, callVars,
                   wBuffer, resizes, faulted, terminated, frequencyValue, hzTimer>>

\* variant: a run() that does not look at the running flag
runAlways(st, isRunning) == Post(st, -1, Msg(EVOLVE, NoInput))

\* loop.run(): st after the Evolve broadcast, when the loop is running
run(st, isRunning) ==
    IF isRunning THEN Post(st, -1, Msg(EVOLVE, NoInput)) ELSE st

RunTick(isRunning) == IF isRunning THEN "evolve" ELSE tick

\* the broadcasts of the ticks dispatched since the last barrier
RunSent(isRunning) == IF isRunning THEN Count(sent, EVOLVE, count) ELSE sent

\* loop.switch()
LoopSwitch ==
    /\ UserCommand
    /\ running' = ~running
    /\ SetPostState(run(PostState, ~running))
    /\ tick' = RunTick(~running)
    /\ sent' = RunSent(~running)
    /\ aliveCells' = IF running THEN AliveCount(getCurrent) ELSE aliveCells
    /\ fired' = NoFire
    /\ UNCHANGED <<gridVars, rules, canvasDOM, canvasVisible, timerArmed, todo,
                   workerVars, acked, partVars, callVars, lifeVars>>

\* the timer armed by loop.continue() fires: loop.run()
TimerFire ==
    /\ Handler
    /\ timerArmed
    /\ timerArmed' = FALSE
    /\ SetPostState(run(PostState, running))
    /\ tick' = RunTick(running)
    /\ sent' = RunSent(running)
    /\ fired' = NoFire
    /\ UNCHANGED <<gridVars, rules, aliveCells, canvasDOM, canvasVisible,
                   running, todo, userVars, workerVars, acked, partVars, callVars, lifeVars>>

\* frequencyController.change / bigIncrement: the new value only changes the
\* delay of the next timer; both end with loop.run()
FrequencyChange ==
    /\ UserCommand
    /\ SetPostState(run(PostState, running))
    /\ tick' = RunTick(running)
    /\ sent' = RunSent(running)
    /\ fired' = NoFire
    /\ UNCHANGED <<gridVars, rules, aliveCells, canvasDOM, canvasVisible,
                   running, timerArmed, todo, workerVars, acked, partVars, callVars, lifeVars>>

\* switchCell: a click on cell `index`
switchCell(index) ==
    /\ UserCommand
    /\ index \in Cells(xLen, yLen)
    /\ WriteCurrent([getCurrent EXCEPT ![index] = IF @ = 0 THEN 1 ELSE 0])
    /\ SetPostState(Post(PostState, -1, Msg(RENDER, NoInput)))
    /\ fired' = NoFire
    /\ UNCHANGED <<xLen, yLen, lastStateArray, indication, rules, aliveCells,
                   canvasDOM, canvasVisible, running, timerArmed, todo,
                   workerVars, sent, acked, tick, partVars, callVars, lifeVars>>

Toggle(set, num) == IF num \in set THEN set \ {num} ELSE set \cup {num}

\* switchRule(rule, num)
switchRule(rule, num) ==
    /\ UserCommand
    /\ LET r == IF rule = "b" THEN [rules EXCEPT !.b = Toggle(@, num)]
                ELSE IF rule = "s" THEN [rules EXCEPT !.s = Toggle(@, num)]
                ELSE rules
       IN /\ rules' = r
          /\ SetPostState(Post(PostState, -1, Msg(CHANGERULES, [rules |-> r])))
    /\ fired' = NoFire
    /\ UNCHANGED <<gridVars, aliveCells, canvasDOM, canvasVisible, running,
                   timerArmed, todo, workerVars, sent, acked, tick, partVars, callVars, lifeVars>>

\* random(), numOfPasses drawn by getRandomInt
Random(numOfPasses) ==
    /\ UserCommand
    /\ LET PostEach[i \in 0 .. numOfPasses] ==
               IF i = 0 THEN PostState
               ELSE Post(PostEach[i - 1], i - 1, Msg(RANDOM, 1))
       IN IF count >= numOfPasses
          THEN SetPostState(PostEach[numOfPasses])
          ELSE SetPostState(Post(PostState, -1,
                                 Msg(RANDOM, numOfPasses \div count)))
    /\ fired' = NoFire
    /\ UNCHANGED <<gridVars, rules, aliveCells, canvasDOM, canvasVisible,
                   running, timerArmed, todo, workerVars, sent, acked, tick, partVars, callVars, lifeVars>>

\* clear(), and the "c" key
Clear ==
    /\ UserCommand
    /\ SetPostState(Post(PostState, -1, Msg(CLEAR, NoInput)))
    /\ fired' = NoFire
    /\ UNCHANGED <<gridVars, rules, aliveCells, canvasDOM, canvasVisible,
                   running, timerArmed, todo, workerVars, sent, acked, tick, partVars, callVars, lifeVars>>

(***************************************************************************)
(* The workers (worker.ts): relay, one command at a time.                  *)
(***************************************************************************)
Forget == fired' = IF todo = <<>> THEN NoFire ELSE fired

\* the "message" event: the next command of the port's queue
WorkerReceive(i) ==
    /\ cur[i].type = NONE
    /\ pool[i] # <<>>
    /\ cur' = [cur EXCEPT ![i] = Head(pool[i])]
    /\ pool' = [pool EXCEPT ![i] = Tail(@)]
    /\ Forget
    /\ UNCHANGED <<gridVars, waiting, rules, aliveCells, canvasDOM,
                   canvasVisible, running, timerArmed, todo, userVars, outbox,
                   wScope, wRules, sent, acked, tick, partVars, callVars, lifeVars>>

\* variant: a relay that posts no completion after an <ERROR>
NotificationsErrorOnly(type) ==
    IF type \in CommandTags THEN <<Msg(WAITINGAFTER, type)>>
    ELSE <<Msg(ERROR, type)>>

\* the notifications relay posts for a message of type `type`
Notifications(type) ==
    (IF type \in CommandTags THEN <<>> ELSE <<Msg(ERROR, type)>>)
        \o <<Msg(WAITINGAFTER, type)>>

\* variant: a worker that exchanges the roles itself when it has evolved
CommandEffectFlipping(i, m) ==
    IF m.type = EVOLVE
    THEN /\ WriteNext(evolve(getCurrent, getNext, wScope[i].start,
                             wScope[i].end, xLen, yLen, wRules[i]))
         /\ indication' = switchIndication(indication)
         /\ UNCHANGED <<xLen, yLen, lastStateArray, wScope, wRules>>
    ELSE UNCHANGED <<gridVars, wScope, wRules>>

\* the switch of relay, for a worker whose cellsState is a view of the
\* page's buffer: the effect of the command in progress
CommandEffect(i, m) ==
    LET start == wScope[i].start
        end == wScope[i].end
    IN CASE m.type = INIT ->
              /\ wScope' = [wScope EXCEPT ![i] =
                     [start |-> m.input.arrayScopeOffsetStart,
                      end |-> m.input.arrayScopeOffsetEnd]]
              /\ wRules' = [wRules EXCEPT ![i] = m.input.rules]
              /\ lastStateArray' =
                     draw(getCurrent, lastStateArray,
                          m.input.arrayScopeOffsetStart,
                          m.input.arrayScopeOffsetEnd)
              /\ UNCHANGED <<xLen, yLen, leftArray, rightArray, indication>>
         [] m.type = EVOLVE ->
              /\ WriteNext(evolve(getCurrent, getNext, start, end,
                                  xLen, yLen, wRules[i]))
              /\ UNCHANGED <<xLen, yLen, lastStateArray, indication,
                             wScope, wRules>>
         [] m.type = RENDER ->
              /\ lastStateArray' = draw(getCurrent, lastStateArray, start, end)
              /\ UNCHANGED <<xLen, yLen, leftArray, rightArray, indication,
                             wScope, wRules>>
         [] m.type = CHANGERULES ->
              /\ wRules' = [wRules EXCEPT ![i] = m.input.rules]
              /\ UNCHANGED <<gridVars, wScope>>
         [] m.type = RANDOM ->
              /\ \E arr \in random(getCurrent, m.input, xLen, yLen) :
                     WriteCurrent(arr)
              /\ UNCHANGED <<xLen, yLen, lastStateArray, indication,
                             wScope, wRules>>
         [] m.type = CLEAR ->
              /\ WriteCurrent(clear(getCurrent, start, end))
              /\ UNCHANGED <<xLen, yLen, lastStateArray, indication,
                             wScope, wRules>>
         [] OTHER ->
              UNCHANGED <<gridVars, wScope, wRules>>

\* ... for a worker whose cellsState is a view of a buffer the page has
\* replaced: the arrays it reads and writes are not the page's
ReplacedEffect(i, m) ==
    CASE m.type = INIT ->
              /\ wScope' = [wScope EXCEPT ![i] =
                     [start |-> m.input.arrayScopeOffsetStart,
                      end |-> m.input.arrayScopeOffsetEnd]]
              /\ wRules' = [wRules EXCEPT ![i] = m.input.rules]
              /\ UNCHANGED gridVars
      [] m.type = CHANGERULES ->
              /\ wRules' = [wRules EXCEPT ![i] = m.input.rules]
              /\ UNCHANGED <<gridVars, wScope>>
      [] OTHER ->
              UNCHANGED <<gridVars, wScope, wRules>>

\* <INIT> makes the worker's cellsState a view of input.sharedBuffer
WorkerBuffer(i, m) == IF m.type = INIT THEN m.input.sharedBuffer ELSE wBuffer[i]

WorkerEffect(i, m) ==
    /\ wBuffer' = [wBuffer EXCEPT ![i] = WorkerBuffer(i, m)]
    /\ IF WorkerBuffer(i, m) = sharedBuffer
       THEN CommandEffect(i, m)
       ELSE ReplacedEffect(i, m)

\* the command in progress ends: its effect, then the notifications
WorkerComplete(i) ==
    /\ cur[i].type # NONE
    /\ WorkerEffect(i, cur[i])
    /\ outbox' = [outbox EXCEPT ![i] = @ \o Notifications(cur[i].type)]
    /\ cur' = [cur EXCEPT ![i] = NoMsg]
    /\ Forget
    /\ UNCHANGED <<coordVars, userVars, sent, acked, tick, partVars, callVars,
                   sharedBuffer, resizes, faulted, terminated, frequencyValue, hzTimer>>

(***************************************************************************)
(* workersController.relay                                                 *)
(***************************************************************************)
\* variant: a barrier that fires one completion early
BarrierReachedEarly(w) == w >= count - 1
BarrierReached(w) == w = count

\* variant: a <CHANGE-RULES> barrier that does not continue the loop
PolicyRulesNoContinue(tag) ==
    CASE tag = INIT -> <<"updateAliveCellsCount", "canvasVisible">>
      [] tag = EVOLVE -> <<"switchIndication", "post">>
      [] tag \in {RANDOM, CLEAR} -> <<"post">>
      [] tag = RENDER -> <<"continue">>
      [] OTHER -> <<>>

\* variant: the <EVOLVE> case posts the Render before it flips
PolicyRenderFirst(tag) ==
    CASE tag = INIT -> <<"updateAliveCellsCount", "canvasVisible">>
      [] tag = EVOLVE -> <<"post", "switchIndication">>
      [] tag \in {RANDOM, CLEAR} -> <<"post">>
      [] tag \in {RENDER, CHANGERULES} -> <<"continue">>
      [] OTHER -> <<>>

\* the operations of the inner switch for the tag of the last completion
Policy(tag) ==
    CASE tag = INIT -> <<"updateAliveCellsCount", "canvasVisible">>
      [] tag = EVOLVE -> <<"switchIndication", "post">>
      [] tag \in {RANDOM, CLEAR} -> <<"post">>
      [] tag \in {RENDER, CHANGERULES} -> <<"continue">>
      [] OTHER -> <<>>

Busy(i) == pool[i] # <<>> \/ cur[i].type # NONE \/ outbox[i] # <<>>

\* the "message" event of worker i's port
Relay(i) ==
    /\ Handler
    /\ outbox[i] # <<>>
    /\ outbox' = [outbox EXCEPT ![i] = Tail(@)]
    /\ LET ev == Head(outbox[i])
           w == waiting + 1
           tag == ev.input
           n == Count(acked, tag, 1)
       IN IF ev.type = WAITINGAFTER
          THEN /\ waiting' = w
               /\ IF BarrierReached(w)
                  THEN /\ todo' = Policy(tag)
                       /\ fired' = [tag |-> tag, acks |-> n, sent |-> sent,
                                    flips |-> 0]
                       /\ sent' = ZeroTags
                       /\ acked' = ZeroTags
                       /\ tick' = IF tag = EVOLVE THEN "evolve" ELSE "none"
                  ELSE /\ todo' = todo
                       /\ fired' = NoFire
                       /\ sent' = sent
                       /\ acked' = n
                       /\ tick' = tick
          ELSE /\ fired' = NoFire
               /\ UNCHANGED <<waiting, todo, sent, acked, tick>>
    /\ UNCHANGED <<gridVars, pool, rules, aliveCells, canvasDOM, canvasVisible,
                   running, timerArmed, userVars, cur, wScope, wRules, partVars, callVars, lifeVars>>

\* variant: a continue() that leaves the count alone when the loop is stopped
ContinueNeverUpdates(op, isRunning) == FALSE

\* loop.continue() with the loop stopped: updateAliveCellsCount()
ContinueUpdates(op, isRunning) == op = "continue" /\ ~isRunning

\* the next operation of the policy
PolicyStep ==
    /\ todo # <<>>
    /\ todo' = Tail(todo)
    /\ LET op == Head(todo)
       IN /\ indication' = IF op = "switchIndication"
                           THEN switchIndication(indication) ELSE indication
          /\ fired' = IF op = "switchIndication"
                      THEN [fired EXCEPT !.flips = @ + 1] ELSE fired
          /\ IF op = "post"
             THEN /\ SetPostState(Post(PostState, -1, Msg(RENDER, NoInput)))
                  /\ tick' = IF fired.tag = EVOLVE THEN "render" ELSE tick
                  /\ sent' = IF fired.tag = EVOLVE
                             THEN Count(sent, RENDER, count) ELSE sent
             ELSE UNCHANGED <<pool, waiting, sent, tick>>
          \* loop.continue()
          /\ timerArmed' = IF op = "continue" /\ running THEN TRUE
                           ELSE timerArmed
          /\ aliveCells' = IF op = "updateAliveCellsCount"
                              \/ ContinueUpdates(op, running)
                           THEN AliveCount(getCurrent) ELSE aliveCells
          /\ canvasVisible' = IF op = "canvasVisible" THEN TRUE
                              ELSE canvasVisible
    /\ UNCHANGED <<xLen, yLen, leftArray, rightArray, lastStateArray, rules,
                   canvasDOM, running, userVars, workerVars, acked, partVars, callVars, lifeVars>>

(***************************************************************************)
(* The program                                                             *)
(***************************************************************************)
Next ==
    \/ \E d \in NodeDims : ShowCanvas(d[1], d[2])
    \/ LoopSwitch
    \/ TimerFire
    \/ FrequencyChange
    \/ \E index \in Cells(xLen, yLen) : switchCell(index)
    \/ \E k \in RuleKeys : switchRule(k[1], k[2])
    \/ \E p \in 1 .. MaxPasses : Random(p)
    \/ Clear
    \/ \E i \in Workers : WorkerReceive(i)
    \/ \E i \in Workers : WorkerComplete(i)
    \/ \E i \in Workers : Relay(i)
    \/ PolicyStep

Spec == Init /\ [][Next]_vars

(***************************************************************************)
(* initMatrix on its own: the loop over the workers, one iteration a step, *)
(* for every grid and every number of workers within the bounds.           *)
(***************************************************************************)
InitPartitionInputs ==
    /\ pX \in 1 .. MaxPartX
    /\ pY \in 1 .. MaxPartY
    /\ pN \in 1 .. MaxPartN
    /\ pI = 0
    /\ arrayScopePool = 0
    /\ pScopes = <<>>

\* one iteration of `for (let i = 0; i < workersController.count; i++)`
PartitionStep ==
    /\ pI < pN
    /\ LET sc == ScopeOf(arrayScopePool, pI, pX, pY, pN)
       IN /\ pScopes' = Append(pScopes, sc)
          /\ arrayScopePool' = sc.end
    /\ pI' = pI + 1
    /\ UNCHANGED <<pX, pY, pN, gridVars, coordVars, userVars, workerVars,
                   histVars, callVars, lifeVars>>

NextPartition == PartitionStep

InitPartitionLoop == InitProgram /\ InitPartitionInputs /\ InitCall

SpecPartition == InitPartitionLoop /\ [][NextPartition]_vars

(***************************************************************************)
(* One Evolve phase on its own: every worker has received the Evolve of    *)
(* the tick; the grid, the stale content of next(), the rules and the      *)
(* row-aligned split of the grid among the workers are arbitrary.          *)
(***************************************************************************)
Grids(xl, yl) == {g \in [Cells(xl, yl) -> {0, 1}] : AliveCount(g) <= MaxAlive}

RuleSets == {DefaultRules, [b |-> {1, 3}, s |-> {0, 2}]}

\* the row-aligned splits of yl rows among the workers: worker i gets the
\* rows from bound[i] up to bound[i + 1]
Splits(xl, yl) ==
    { [i \in Workers |-> [start |-> bound[i] * xl, end |-> bound[i + 1] * xl]] :
        bound \in { f \in [0 .. count -> 0 .. yl] :
                      /\ f[0] = 0
                      /\ f[count] = yl
                      /\ \A i \in Workers : f[i] <= f[i + 1] } }

InitEvolve ==
    /\ \E d \in EvolveDims : xLen = d[1] /\ yLen = d[2]
    /\ indication \in {0, 1}
    /\ \E g \in Grids(xLen, yLen), fill \in {0, 1} :
          LET stale == [k \in Cells(xLen, yLen) |-> fill]
          IN /\ leftArray = IF indication = 0 THEN g ELSE stale
             /\ rightArray = IF indication = 0 THEN stale ELSE g
             /\ lastStateArray = g
             /\ aliveCells = AliveCount(g)
    /\ rules \in RuleSets
    /\ wRules = [i \in Workers |-> rules]
    /\ wScope \in Splits(xLen, yLen)
    /\ waiting = 0
    /\ pool = [i \in Workers |-> <<>>]
    /\ cur = [i \in Workers |-> Msg(EVOLVE, NoInput)]
    /\ outbox = [i \in Workers |-> <<>>]
    /\ canvasDOM = TRUE
    /\ canvasVisible = TRUE
    /\ userCommands = 0
    /\ running = TRUE
    /\ timerArmed = FALSE
    /\ todo = <<>>
    /\ sent = Count(ZeroTags, EVOLVE, count)
    /\ acked = ZeroTags
    /\ fired = NoFire
    /\ tick = "evolve"
    /\ InitPartition
    /\ InitCall
    /\ InitAttached

NextEvolve ==
    \/ \E i \in Workers : WorkerComplete(i)
    \/ \E i \in Workers : Relay(i)
    \/ PolicyStep

SpecEvolve == InitEvolve /\ [][NextEvolve]_vars

(***************************************************************************)
(* Properties                                                              *)
(***************************************************************************)
\* worker i has a command of one of `types` queued or in progress
Pending(i, types) ==
    \/ \E k \in DOMAIN pool[i] : pool[i][k].type \in types
    \/ cur[i].type \in types

\* ... or completed and not yet acknowledged by relay
Outstanding(i, types) ==
    \/ Pending(i, types)
    \/ \E k \in DOMAIN outbox[i] :
          outbox[i][k].type = WAITINGAFTER /\ outbox[i][k].input \in types

\* a step that appends a message of type `type` to some worker's queue
Dispatch(type) ==
    \E i \in Workers :
        /\ Len(pool'[i]) > Len(pool[i])
        /\ pool'[i][Len(pool'[i])].type = type

\* a step that changes the role indicator of the grid
FlipStep == indication' # indication

\* worker i ends the command of type `type`
Completes(i, type) == cur[i].type = type /\ cur'[i].type = NONE

InScope(i, k) == k >= wScope[i].start /\ k < wScope[i].end

\* C1: the phase-transition policy fires exactly once per broadcast of the
\* tick, after exactly N completions of that command: whenever the barrier
\* fires, every tick broadcast (Evolve, or the Render that follows an Evolve
\* barrier) dispatched since the last barrier is the one the policy fires
\* for, was dispatched once, and has all its N completions counted.
C1_BarrierPerBroadcast ==
    fired.tag # NONE =>
        \A t \in TickTags :
            fired.sent[t] > 0 =>
                /\ fired.tag = t
                /\ fired.sent[t] = count
                /\ fired.acks[t] >= count

\* C2: within a tick the Evolve barrier precedes the flip and the flip
\* precedes the dispatch of the Render broadcast; the flip is one step of the
\* coordinator, taken once for the barrier: a flip happens only in the
\* policy of a barrier fired by an Evolve completion, with all N Evolve
\* completions counted, no Evolve left anywhere, no flip and no Render of the
\* tick before it, and no worker stepping; the Render of the tick is
\* dispatched only after that one flip.
C2_EvolveFlipRender ==
    [][ /\ FlipStep =>
              /\ fired.tag = EVOLVE
              /\ fired.acks[EVOLVE] >= count
              /\ fired.flips = 0
              /\ sent[RENDER] = 0
              /\ \A i \in Workers : ~Outstanding(i, {EVOLVE})
              /\ cur' = cur /\ outbox' = outbox /\ pool' = pool
        /\ (fired.tag = EVOLVE /\ Dispatch(RENDER)) => fired.flips = 1
      ]_vars

C2_Witness ==
    /\ fired.tag = EVOLVE
    /\ fired.flips = 1
    /\ todo = <<>>
    /\ sent[RENDER] = count
    /\ \A i \in Workers : Pending(i, {RENDER})

\* C3: a new Evolve broadcast is never dispatched until the Render barrier
\* of the previous tick has been satisfied: every step that dispatches an
\* Evolve starts with no tick in flight.
C3_NoEvolveBeforeRenderBarrier ==
    [][Dispatch(EVOLVE) => tick = "none"]_vars

\* C4: the role indicator is toggled exactly once for every Evolve broadcast
\* whose N completions have all been received: when the policy of a barrier
\* has run to its end, it has flipped once if one Evolve broadcast was
\* dispatched since the previous barrier, and not at all if none was.
C4_OneFlipPerEvolve ==
    (fired.tag # NONE /\ todo = <<>>) =>
        fired.flips * count = fired.sent[EVOLVE]

\* C5: no worker starts executing a Render command while any worker still
\* has an Evolve command pending or in progress.
C5_NoRenderDuringEvolve ==
    [][ \A i \in Workers :
            (cur[i].type # RENDER /\ cur'[i].type = RENDER) =>
                \A j \in Workers : ~Pending(j, {EVOLVE}) ]_vars

\* C6: while a worker has an Evolve pending or in progress no worker
\* executes a Random or a Clear (the commands that write current()), and the
\* coordinator never has an Evolve outstanding together with a Random or a
\* Clear.
C6_PhaseSeparation ==
    /\ ~ \E i, j \in Workers :
          Pending(i, {EVOLVE}) /\ cur[j].type \in {RANDOM, CLEAR}
    /\ ~ \E i, j \in Workers :
          Outstanding(i, {EVOLVE}) /\ Outstanding(j, {RANDOM, CLEAR})

\* C7: the flip is performed only when waiting equals the number of workers,
\* never while a worker is executing (or has yet to execute, or to report)
\* an Evolve or a Render.
C7_FlipOnlyAtBarrier ==
    [][ FlipStep =>
            /\ waiting = count
            /\ \A i \in Workers : ~Busy(i) ]_vars

C7_Witness ==
    /\ fired.tag = EVOLVE
    /\ fired.flips = 1
    /\ todo # <<>>
    /\ waiting = count

\* C8: the partitions initMatrix computes for workers 0..N-1 are contiguous
\* in worker order from 0 to xLen*yLen, every boundary is a multiple of xLen,
\* and every cell of the grid lies in exactly one of them (pairwise
\* disjoint, union the whole grid), also when yLen < N.
C8_Partition ==
    pI = pN =>
        /\ Len(pScopes) = pN
        /\ pScopes = Scopes(pX, pY, pN)
        /\ pScopes[1].start = 0
        /\ pScopes[pN].end = pX * pY
        /\ \A k \in 1 .. pN - 1 : pScopes[k].end = pScopes[k + 1].start
        /\ \A k \in 1 .. pN :
              /\ pScopes[k].start <= pScopes[k].end
              /\ pScopes[k].start % pX = 0
              /\ pScopes[k].end % pX = 0
        /\ \A c \in Cells(pX, pY) :
              Cardinality({k \in 1 .. pN :
                  c >= pScopes[k].start /\ c < pScopes[k].end}) = 1

C8_Witness ==
    /\ pI = pN
    /\ pY < pN
    /\ pX > 1
    /\ \E k \in 1 .. pN : pScopes[k].start = pScopes[k].end
    /\ \E k \in 1 .. pN : pScopes[k].start < pScopes[k].end

\* the generation evolve computes from current() over the whole grid
WholeGrid == evolve(getCurrent, getNext, 0, xLen * yLen, xLen, yLen, rules)

\* C9: evolve run on each partition of a row-aligned split, in any order,
\* against the same current() leaves in next() what one pass over the whole
\* grid leaves: as soon as a worker has run its Evolve, and until the flip,
\* next() agrees with the whole-grid generation on that worker's partition.
C9_PartitionIndependence ==
    (tick = "evolve" /\ fired.flips = 0) =>
        \A i \in Workers :
            cur[i].type = NONE =>
                \A k \in Cells(xLen, yLen) :
                    InScope(i, k) => getNext[k] = WholeGrid[k]

C9_Witness ==
    /\ tick = "evolve" /\ fired.flips = 0
    /\ \A i \in Workers : cur[i].type = NONE
    /\ Cardinality({i \in Workers : wScope[i].start < wScope[i].end}) > 1
    /\ getNext = WholeGrid
    /\ getNext # getCurrent
    /\ AliveCount(getNext) > 0

\* C10: evolve leaves current(), lastStateArray and the role indicator as
\* they are and changes next() only inside the worker's own partition; the
\* flip changes no array, and after it current() is the array that was
\* next() just before.
C10_DoubleBufferIsolation ==
    [][ /\ \A i \in Workers :
              Completes(i, EVOLVE) =>
                  /\ getCurrent' = getCurrent
                  /\ lastStateArray' = lastStateArray
                  /\ indication' = indication
                  /\ \A k \in Cells(xLen, yLen) :
                        ~InScope(i, k) => getNext'[k] = getNext[k]
        /\ FlipStep =>
              /\ getCurrent' = getNext
              /\ leftArray' = leftArray
              /\ rightArray' = rightArray
      ]_vars

C10_Witness ==
    /\ fired.tag = EVOLVE
    /\ fired.flips = 1
    /\ getCurrent # getNext
    /\ AliveCount(getCurrent) > 0
    /\ AliveCount(getNext) > 0

\* C11: in every state exactly one of the two arrays is current(): the role
\* indicator is 0 or 1, getCurrent and getNext select different arrays, and
\* switchIndication applied twice gives the indicator back; a flip is one
\* application of switchIndication, exchanges the two roles and changes the
\* contents of neither array nor of lastStateArray.
C11_ExactlyOneCurrent ==
    /\ [](/\ indication \in {0, 1}
          /\ CurrentIsLeft # NextIsLeft
          /\ switchIndication(indication) \in {0, 1}
          /\ switchIndication(indication) # indication
          /\ switchIndication(switchIndication(indication)) = indication)
    /\ [][FlipStep =>
              /\ indication' = switchIndication(indication)
              /\ CurrentIsLeft' = NextIsLeft
              /\ NextIsLeft' = CurrentIsLeft
              /\ leftArray' = leftArray
              /\ rightArray' = rightArray
              /\ lastStateArray' = lastStateArray]_vars

C11_Witness ==
    /\ fired.flips = 1
    /\ indication = 0
    /\ leftArray # rightArray
    /\ todo # <<>>

\* the coordinate next to v in a ring of n: past either end is the other end
Wrap(v, n) == IF v < 0 THEN n - 1 ELSE IF v >= n THEN 0 ELSE v

Around ==
    << <<-1, -1>>, <<0, -1>>, <<1, -1>>, <<-1, 0>>,
       <<1, 0>>, <<-1, 1>>, <<0, 1>>, <<1, 1>> >>

\* how many of the 8 toroidal neighbours of cell k hold 1 in cs
AliveAround(cs, k, xl, yl) ==
    Cardinality({n \in DOMAIN Around :
        cs[Wrap((k \div xl) + Around[n][2], yl) * xl
           + Wrap((k % xl) + Around[n][1], xl)] = 1})

\* C12: for every index of its partition evolve writes to next() 1 if the
\* cell is dead in current() and the number of alive cells among its 8
\* toroidal neighbours is in born, 1 if it is alive and that number is in
\* survive, and 0 otherwise; the neighbour past a grid edge is the cell on
\* the opposite edge.
C12_EvolveRule ==
    (tick = "evolve" /\ fired.flips = 0) =>
        \A i \in Workers :
            cur[i].type = NONE =>
                \A k \in Cells(xLen, yLen) :
                    InScope(i, k) =>
                        LET n == AliveAround(getCurrent, k, xLen, yLen)
                        IN getNext[k] =
                             IF getCurrent[k] = 0 /\ n \in wRules[i].b THEN 1
                             ELSE IF getCurrent[k] = 1 /\ n \in wRules[i].s
                                  THEN 1
                             ELSE 0

\* a cell of the first row is born from alive cells of the last row only,
\* which survive
C12_Witness ==
    /\ tick = "evolve" /\ fired.flips = 0
    /\ \A i \in Workers : cur[i].type = NONE
    /\ \A k \in Cells(xLen, yLen) :
          getCurrent[k] = 1 => (k \div xLen = yLen - 1 /\ getNext[k] = 1)
    /\ \E k \in Cells(xLen, yLen) :
          k \div xLen = 0 /\ getCurrent[k] = 0 /\ getNext[k] = 1

(***************************************************************************)
(* The running loop on its own, from a grid that holds one 2x2 block: the  *)
(* timer fires, the workers evolve, the coordinator flips, the workers     *)
(* render, loop.continue() arms the timer again, for ever.                 *)
(***************************************************************************)
BlockDims == {<<4, 4>>, <<4, 5>>}

\* the grid whose alive cells are the 2x2 block with top-left cell c
BlockAt(c, xl, yl) ==
    [k \in Cells(xl, yl) |->
        IF /\ ((k % xl) - (c % xl)) % xl \in {0, 1}
           /\ ((k \div xl) - (c \div xl)) % yl \in {0, 1}
        THEN 1 ELSE 0]

InitBlock ==
    /\ \E d \in BlockDims : xLen = d[1] /\ yLen = d[2]
    /\ indication \in {0, 1}
    /\ \E c \in Cells(xLen, yLen), fill \in {0, 1} :
          LET g == BlockAt(c, xLen, yLen)
              stale == [k \in Cells(xLen, yLen) |-> fill]
          IN /\ leftArray = IF indication = 0 THEN g ELSE stale
             /\ rightArray = IF indication = 0 THEN stale ELSE g
             /\ lastStateArray = g
             /\ aliveCells = AliveCount(g)
    /\ rules = DefaultRules
    /\ wRules = [i \in Workers |-> rules]
    /\ wScope = [i \in Workers |-> Scopes(xLen, yLen, count)[i + 1]]
    /\ waiting = count
    /\ pool = [i \in Workers |-> <<>>]
    /\ cur = [i \in Workers |-> NoMsg]
    /\ outbox = [i \in Workers |-> <<>>]
    /\ canvasDOM = TRUE
    /\ canvasVisible = TRUE
    /\ userCommands = 0
    /\ running = TRUE
    /\ timerArmed = TRUE
    /\ todo = <<>>
    /\ InitHistory
    /\ InitPartition
    /\ InitCall
    /\ InitAttached

NextBlock ==
    \/ TimerFire
    \/ \E i \in Workers : WorkerReceive(i)
    \/ \E i \in Workers : WorkerComplete(i)
    \/ \E i \in Workers : Relay(i)
    \/ PolicyStep

SpecBlock == InitBlock /\ [][NextBlock]_vars

\* C13: with born = {3}, survive = {2, 3}, a 2x2 block of alive cells on an
\* otherwise dead toroidal grid of at least 4x4 is unchanged by any number of
\* evolve-then-swap steps: current() is a block in every state of the running
\* loop, and no step changes what current() holds.
C13_BlockStable ==
    /\ [](/\ AliveCount(getCurrent) = 4
          /\ \E c \in Cells(xLen, yLen) : getCurrent = BlockAt(c, xLen, yLen))
    /\ [][getCurrent' = getCurrent]_vars

\* a whole tick is over: evolved, flipped, rendered, the timer armed again
C13_Witness ==
    /\ timerArmed
    /\ fired.tag = RENDER
    /\ leftArray = rightArray
    /\ \E c \in Cells(xLen, yLen) : getCurrent = BlockAt(c, xLen, yLen)

(***************************************************************************)
(* One Evolve phase on the 3x3 grid whose only alive cell is (0, 0), with  *)
(* born = {2} or {1}.                                                      *)
(***************************************************************************)
CornerRules == {[b |-> bs, s |-> ss] : bs \in {{2}, {1}}, ss \in {{}, {0}, {2, 3}}}

InitCorner ==
    /\ xLen = 3 /\ yLen = 3
    /\ indication \in {0, 1}
    /\ \E fill \in {0, 1} :
          LET g == [k \in Cells(3, 3) |-> IF k = 0 THEN 1 ELSE 0]
              stale == [k \in Cells(3, 3) |-> fill]
          IN /\ leftArray = IF indication = 0 THEN g ELSE stale
             /\ rightArray = IF indication = 0 THEN stale ELSE g
             /\ lastStateArray = g
             /\ aliveCells = 1
    /\ rules \in CornerRules
    /\ wRules = [i \in Workers |-> rules]
    /\ wScope \in Splits(xLen, yLen)
    /\ waiting = 0
    /\ pool = [i \in Workers |-> <<>>]
    /\ cur = [i \in Workers |-> Msg(EVOLVE, NoInput)]
    /\ outbox = [i \in Workers |-> <<>>]
    /\ canvasDOM = TRUE
    /\ canvasVisible = TRUE
    /\ userCommands = 0
    /\ running = TRUE
    /\ timerArmed = FALSE
    /\ todo = <<>>
    /\ sent = Count(ZeroTags, EVOLVE, count)
    /\ acked = ZeroTags
    /\ fired = NoFire
    /\ tick = "evolve"
    /\ InitPartition
    /\ InitCall
    /\ InitAttached

SpecCorner == InitCorner /\ [][NextEvolve]_vars

\* every worker has run its Evolve and the coordinator has not flipped yet
Evolved ==
    /\ tick = "evolve" /\ fired.flips = 0
    /\ \A i \in Workers : cur[i].type = NONE

\* the cells that have cell c among their 8 toroidal neighbours
AdjacentTo(c, xl, yl) ==
    {k \in Cells(xl, yl) :
        \E n \in DOMAIN Around :
            c = Wrap((k \div xl) + Around[n][2], yl) * xl
                + Wrap((k % xl) + Around[n][1], xl)}

\* C14 as stated: on the 3x3 grid whose only alive cell is (0, 0), one evolve
\* step with born = {2} brings the dead cells adjacent to (W-1, H-1) to life.
C14_CornerNeighboursBorn ==
    (Evolved /\ rules.b = {2}) =>
        \A k \in AdjacentTo(xLen * yLen - 1, xLen, yLen) :
            getCurrent[k] = 0 => getNext[k] = 1

\* C14, amended: on that grid every dead cell, those adjacent to (W-1, H-1)
\* and (W-1, H-1) itself included, has exactly one alive neighbour under
\* wraparound counting, so one evolve step brings no cell to life with
\* born = {2} and all eight dead cells to life with born = {1}; (0, 0) stays
\* alive exactly if 0 is in survive.
C14_OneNeighbourEach ==
    Evolved =>
        /\ \A k \in Cells(xLen, yLen) \ {0} :
              /\ AliveAround(getCurrent, k, xLen, yLen) = 1
              /\ getNext[k] = IF 1 \in rules.b THEN 1 ELSE 0
        /\ getNext[0] = IF 0 \in rules.s THEN 1 ELSE 0

C14_Witness ==
    /\ Evolved
    /\ rules.b = {2}
    /\ getCurrent[0] = 1
    /\ AliveCount(getCurrent) = 1
    /\ AliveCount(getNext) = 0
    /\ Cardinality({i \in Workers : wScope[i].start < wScope[i].end}) > 1

(***************************************************************************)
(* CellsRenderer.draw on its own: the workers call draw() in any order and *)
(* any number of times while current() stays as it is; lastStateArray      *)
(* starts as any array of cell values or as the sentinel fill of           *)
(* initMatrix.                                                             *)
(***************************************************************************)
DrawDims == {<<2, 2>>}

InitDraw ==
    /\ \E d \in DrawDims : xLen = d[1] /\ yLen = d[2]
    /\ indication \in {0, 1}
    /\ \E g \in [Cells(xLen, yLen) -> {0, 1}] :
          /\ leftArray = IF indication = 0 THEN g ELSE ZeroArray(xLen, yLen)
          /\ rightArray = IF indication = 0 THEN ZeroArray(xLen, yLen) ELSE g
          /\ aliveCells = AliveCount(g)
    /\ lastStateArray \in
          [Cells(xLen, yLen) -> {0, 1}] \cup {[k \in Cells(xLen, yLen) |-> 2]}
    /\ rules = DefaultRules
    /\ wRules = [i \in Workers |-> rules]
    /\ wScope \in Splits(xLen, yLen)
    /\ waiting = count
    /\ pool = [i \in Workers |-> <<>>]
    /\ cur = [i \in Workers |-> NoMsg]
    /\ outbox = [i \in Workers |-> <<>>]
    /\ canvasDOM = TRUE
    /\ canvasVisible = TRUE
    /\ userCommands = 0
    /\ running = FALSE
    /\ timerArmed = FALSE
    /\ todo = <<>>
    /\ InitHistory
    /\ InitPartition
    /\ InitCall
    /\ InitAttached

\* worker i runs cellsRenderer.draw()
DrawCall(i) ==
    /\ call' = [op |-> "draw",
                worker |-> i,
                again |-> call.op = "draw" /\ call.worker = i,
                last |-> lastStateArray,
                ops |-> drawOps(getCurrent, lastStateArray,
                                wScope[i].start, wScope[i].end, xLen)]
    /\ WorkerEffect(i, Msg(RENDER, NoInput))
    /\ UNCHANGED <<coordVars, userVars, cur, outbox, histVars, partVars,
                   sharedBuffer, resizes, faulted, terminated, frequencyValue, hzTimer>>

NextDraw == \E i \in Workers : DrawCall(i)

SpecDraw == InitDraw /\ [][NextDraw]_vars

\* C15: after draw() returns, lastStateArray equals current() on every index
\* of the worker's partition; a second draw() by the same worker with nothing
\* changed in between performs no drawCell, no clearCell and no write.
C15_DrawIdempotent ==
    call.op = "draw" =>
        /\ \A k \in Cells(xLen, yLen) :
              InScope(call.worker, k) => lastStateArray[k] = getCurrent[k]
        /\ call.again =>
              /\ call.ops = <<>>
              /\ lastStateArray = call.last

C15_Witness ==
    /\ call.op = "draw"
    /\ call.again
    /\ call.ops = <<>>
    /\ wScope[call.worker].end - wScope[call.worker].start > xLen
    /\ \E k, l \in Cells(xLen, yLen) :
          /\ InScope(call.worker, k) /\ InScope(call.worker, l)
          /\ getCurrent[k] = 1 /\ getCurrent[l] = 0

\* C16: when every entry of lastStateArray in the worker's partition holds
\* the sentinel 2, draw() performs exactly one operation on every cell of
\* the partition, drawCell where current() holds 1 and clearCell where it
\* holds 0, and no other operation.
C16_ForcedRedraw ==
    (/\ call.op = "draw"
     /\ \A k \in Cells(xLen, yLen) :
           InScope(call.worker, k) => call.last[k] = 2) =>
        LET i == call.worker
            At(k) == {n \in DOMAIN call.ops :
                         /\ call.ops[n].x = (k - wScope[i].start) % xLen
                         /\ call.ops[n].y = (k - wScope[i].start) \div xLen}
        IN /\ Len(call.ops) = wScope[i].end - wScope[i].start
           /\ \A k \in Cells(xLen, yLen) :
                 InScope(i, k) =>
                     /\ Cardinality(At(k)) = 1
                     /\ \A n \in At(k) :
                           /\ call.ops[n].index = k
                           /\ call.ops[n].op = IF getCurrent[k] = 1
                                               THEN "drawCell"
                                               ELSE "clearCell"

C16_Witness ==
    /\ call.op = "draw"
    /\ \A k \in Cells(xLen, yLen) : call.last[k] = 2
    /\ Len(call.ops) > xLen
    /\ \E n, m \in DOMAIN call.ops :
          call.ops[n].op = "drawCell" /\ call.ops[m].op = "clearCell"

(***************************************************************************)
(* The worker's relay on its own: each worker is handed at most one        *)
(* message, of any command type or of a type relay does not know, and the  *)
(* coordinator relays what the workers post back.                          *)
(***************************************************************************)
UNKNOWN == "<UNKNOWN>"

WorkerDims == {<<1, 2>>}

\* the messages worker i may find in its queue
WorkerInputs(i, xl, yl) ==
    { Msg(INIT, [xLen |-> xl, yLen |-> yl, rules |-> DefaultRules,
                 sharedBuffer |-> 1,
                 arrayScopeOffsetStart |-> Scopes(xl, yl, count)[i + 1].start,
                 arrayScopeOffsetEnd |-> Scopes(xl, yl, count)[i + 1].end]),
      Msg(EVOLVE, NoInput), Msg(RENDER, NoInput),
      Msg(CHANGERULES, [rules |-> [b |-> {1}, s |-> {}]]),
      Msg(RANDOM, 1), Msg(CLEAR, NoInput), Msg(UNKNOWN, NoInput) }

InitWorker ==
    /\ \E d \in WorkerDims : xLen = d[1] /\ yLen = d[2]
    /\ indication = 0
    /\ leftArray \in [Cells(xLen, yLen) -> {0, 1}]
    /\ rightArray = ZeroArray(xLen, yLen)
    /\ lastStateArray = leftArray
    /\ aliveCells = AliveCount(leftArray)
    /\ rules = DefaultRules
    /\ wRules = [i \in Workers |-> rules]
    /\ wScope = [i \in Workers |-> Scopes(xLen, yLen, count)[i + 1]]
    /\ pool \in [Workers -> {<<>>} \cup
                    {<<m>> : m \in UNION {WorkerInputs(i, xLen, yLen) :
                                             i \in Workers}}]
    /\ \A i \in Workers :
          pool[i] # <<>> => pool[i][1] \in WorkerInputs(i, xLen, yLen)
    /\ waiting = count - Cardinality({i \in Workers : pool[i] # <<>>})
    /\ cur = [i \in Workers |-> NoMsg]
    /\ outbox = [i \in Workers |-> <<>>]
    /\ canvasDOM = TRUE
    /\ canvasVisible = TRUE
    /\ userCommands = 0
    /\ running = FALSE
    /\ timerArmed = FALSE
    /\ todo = <<>>
    /\ sent = Count(ZeroTags, EVOLVE,
                    Cardinality({i \in Workers : Pending(i, {EVOLVE})}))
    /\ acked = ZeroTags
    /\ fired = NoFire
    /\ tick = IF \E i \in Workers : Pending(i, {EVOLVE})
              THEN "evolve" ELSE "none"
    /\ InitPartition
    /\ InitCall
    /\ InitAttached

NextWorker ==
    \/ \E i \in Workers : WorkerReceive(i)
    \/ \E i \in Workers : WorkerComplete(i)
    \/ \E i \in Workers : Relay(i)
    \/ PolicyStep

SpecWorker == InitWorker /\ [][NextWorker]_vars

\* the notifications worker i adds to its port in a step
Posted(i) == SubSeq(outbox'[i], Len(outbox[i]) + 1, Len(outbox'[i]))

\* C17: every message a worker receives yields exactly one <WAITING-AFTER>
\* carrying the message's type, posted when the command ends; for a type the
\* worker does not know it is preceded by exactly one <ERROR>; relaying an
\* <ERROR> changes neither waiting nor anything else of the barrier, so once
\* every worker is idle and every notification relayed, waiting is back at
\* the number of workers.
C17_OneCompletionPerMessage ==
    /\ [][\A i \in Workers :
            /\ Len(outbox'[i]) > Len(outbox[i]) =>
                  /\ cur[i].type # NONE /\ cur'[i].type = NONE
                  /\ outbox[i] = SubSeq(outbox'[i], 1, Len(outbox[i]))
            /\ (cur[i].type # NONE /\ cur'[i].type = NONE) =>
                  Posted(i) =
                      IF cur[i].type \in CommandTags
                      THEN <<Msg(WAITINGAFTER, cur[i].type)>>
                      ELSE <<Msg(ERROR, cur[i].type),
                             Msg(WAITINGAFTER, cur[i].type)>>
            /\ (/\ Len(outbox'[i]) < Len(outbox[i])
                /\ Head(outbox[i]).type = ERROR) =>
                  /\ waiting' = waiting
                  /\ todo' = todo
                  /\ pool' = pool
         ]_vars
    /\ []((todo = <<>> /\ \A i \in Workers : ~Busy(i)) => waiting = count)

\* an unknown message has been handled and the barrier is back
C17_Witness ==
    /\ fired.tag = UNKNOWN
    /\ waiting = count
    /\ \A i \in Workers : ~Busy(i)

(***************************************************************************)
(* workersController.post on its own: called with any target index from    *)
(* -2 to count + 1 while no worker takes a message.                        *)
(***************************************************************************)
\* messages a worker's queue may hold before post is refused
MaxQueue == 2

PostIndices == -2 .. (count + 1)
PostMessages == {Msg(RANDOM, 1), Msg(CLEAR, NoInput)}

InitPost == InitProgram /\ InitPartition /\ InitCall

PostCall(specificWorker, msg) ==
    /\ \A i \in Workers : Len(pool[i]) < MaxQueue
    /\ call' = [op |-> "post", specificWorker |-> specificWorker,
                msg |-> msg, pool |-> pool, waiting |-> waiting]
    /\ SetPostState(Post(PostState, specificWorker, msg))
    /\ UNCHANGED <<gridVars, rules, aliveCells, canvasDOM, canvasVisible,
                   running, timerArmed, todo, userVars, workerVars, histVars,
                   partVars, lifeVars>>

NextPost == \E specificWorker \in PostIndices, msg \in PostMessages :
                PostCall(specificWorker, msg)

SpecPost == InitPost /\ [][NextPost]_vars

\* C18: post with a target index in [0, N) sends exactly one message, to
\* that worker only, and decreases waiting by exactly 1; with any other
\* index (negative or >= N) it sends the message to each of the N workers
\* exactly once and decreases waiting by exactly N.
C18_Post ==
    call.op = "post" =>
        IF call.specificWorker >= 0 /\ call.specificWorker < count
        THEN /\ waiting = call.waiting - 1
             /\ \A i \in Workers :
                   pool[i] = IF i = call.specificWorker
                             THEN Append(call.pool[i], call.msg)
                             ELSE call.pool[i]
        ELSE /\ waiting = call.waiting - count
             /\ \A i \in Workers : pool[i] = Append(call.pool[i], call.msg)

\* a broadcast with an index past the pool, after a post to one worker
C18_Witness ==
    /\ call.op = "post"
    /\ call.specificWorker >= count
    /\ call.waiting = count - 1
    /\ waiting = -1
    /\ \E i \in Workers : Len(pool[i]) = 2
    /\ \E i \in Workers : Len(pool[i]) = 1

(***************************************************************************)
(* The coordinator's counter against the commands in flight.               *)
(***************************************************************************)
\* commands dispatched to worker i whose <WAITING-AFTER> relay has not
\* handled yet: queued at the port, in progress, or completed and on the
\* way back
Unacknowledged(i) ==
    Len(pool[i]) + (IF cur[i].type # NONE THEN 1 ELSE 0)
        + Cardinality({k \in DOMAIN outbox[i] :
                          outbox[i][k].type = WAITINGAFTER})

RECURSIVE UnacknowledgedBelow(_)
UnacknowledgedBelow(n) ==
    IF n = 0 THEN 0 ELSE UnacknowledgedBelow(n - 1) + Unacknowledged(n - 1)

\* C19: in every reachable state waiting equals N minus the number of
\* dispatched commands not yet acknowledged; so waiting never exceeds N,
\* and waiting = N holds exactly when no command is outstanding.
C19_WaitingCounter ==
    /\ waiting = count - UnacknowledgedBelow(count)
    /\ waiting <= count
    /\ BarrierReached(waiting) <=>
           \A i \in Workers : ~Outstanding(i, CommandTags)

\* two broadcasts overlap: more commands in flight than there are workers
C19_Witness ==
    /\ waiting < 0
    /\ \E i \in Workers : cur[i].type # NONE
    /\ \E i \in Workers : outbox[i] # <<>>

(***************************************************************************)
(* The program with its event loops running: a queued message event is     *)
(* delivered, a handler that started ends, an armed timer fires.  The user *)
(* may stop issuing commands at any point.                                 *)
(***************************************************************************)
EventLoops ==
    \/ \E i \in Workers : WorkerReceive(i)
    \/ \E i \in Workers : WorkerComplete(i)
    \/ \E i \in Workers : Relay(i)
    \/ PolicyStep
    \/ TimerFire

SpecFair == Init /\ [][Next]_vars /\ WF_vars(EventLoops)

RandomOrClearOutstanding ==
    \E i \in Workers : Outstanding(i, {RANDOM, CLEAR})

\* C20: every dispatched Random or Clear is eventually followed by a Render
\* broadcast issued after the command's last completion has been received,
\* whatever other user commands are dispatched while it is outstanding: a
\* state follows in which no Random or Clear is outstanding and a Render is
\* waiting at every worker.
C20_RenderAfterRandomClear ==
    RandomOrClearOutstanding ~>
        (~RandomOrClearOutstanding /\ \A i \in Workers : Pending(i, {RENDER}))

(***************************************************************************)
(* loop.continue() at a Render or ChangeRules barrier.                     *)
(***************************************************************************)
\* the step of the policy that runs loop.continue()
ContinueStep ==
    /\ todo # <<>>
    /\ Head(todo) = "continue"
    /\ todo' = Tail(todo)

\* C21: after a Render or ChangeRules barrier, if the loop is running the
\* tick timer is armed and a new Evolve broadcast is eventually dispatched
\* unless the user stops the loop; if the loop is stopped the policy arms no
\* timer, dispatches nothing and refreshes the alive-cell count.
C21_ContinueAfterBarrier ==
    /\ []((fired.tag \in {RENDER, CHANGERULES} /\ todo = <<>>) =>
             IF running THEN timerArmed
             ELSE aliveCells = AliveCount(getCurrent))
    /\ [][ContinueStep =>
             /\ pool' = pool /\ waiting' = waiting
             /\ ~running => timerArmed' = timerArmed]_vars
    /\ ((timerArmed /\ running) ~>
            (~running \/ (~timerArmed /\ \A i \in Workers :
                                            Pending(i, {EVOLVE}))))

\* the timer armed at a ChangeRules barrier while the loop runs
C21_Witness ==
    /\ fired.tag = CHANGERULES
    /\ todo = <<>>
    /\ running
    /\ timerArmed
    /\ \A i \in Workers : ~Busy(i)

(***************************************************************************)
(* The page with its window events: resize (and fullscreenchange) and the  *)
(* reset button.  The canvas is taken out of the DOM and put back by       *)
(* debouncedShowCanvas, which runs initMatrix on the same pool of workers. *)
(***************************************************************************)
\* resize events of one page
MaxResizes == 1

\* the sizes the matrix may have when the canvas is put into the DOM
PageDims == {<<1, 1>>, <<1, 2>>}

\* the rules onMount may find in the stored snapshot
RestoredRules == {DefaultRules, [b |-> {2}, s |-> {2, 3}]}

\* the page after onMount's snapshot.restore(), before canvasDOM = true
InitPage ==
    /\ xLen = 0 /\ yLen = 0
    /\ leftArray = ZeroArray(0, 0)
    /\ rightArray = ZeroArray(0, 0)
    /\ lastStateArray = ZeroArray(0, 0)
    /\ indication = 0
    /\ waiting = count
    /\ pool = [i \in Workers |-> <<>>]
    /\ rules \in RestoredRules
    /\ aliveCells = 0
    /\ canvasDOM = FALSE
    /\ canvasVisible = FALSE
    /\ userCommands = 0
    /\ running = FALSE
    /\ timerArmed = FALSE
    /\ todo = <<>>
    /\ cur = [i \in Workers |-> NoMsg]
    /\ outbox = [i \in Workers |-> <<>>]
    /\ wScope = [i \in Workers |-> NoScope]
    /\ wRules = [i \in Workers |-> DefaultRules]
    /\ InitHistory
    /\ InitLife
    /\ InitPartition
    /\ InitCall

\* the body of resizeHandler
Resized ==
    /\ canvasDOM' = FALSE
    /\ canvasVisible' = IF canvasDOM THEN FALSE ELSE canvasVisible
    \* loop.switch() when the loop runs: run() then posts nothing
    /\ running' = FALSE
    /\ aliveCells' = IF running THEN AliveCount(getCurrent) ELSE aliveCells
    /\ fired' = NoFire
    /\ UNCHANGED <<gridVars, waiting, pool, timerArmed, todo, workerVars,
                   sent, acked, tick, partVars, callVars, sharedBuffer,
                   wBuffer, faulted, terminated, frequencyValue, hzTimer>>

\* the window's resize event, the document's fullscreenchange event
resizeHandler ==
    /\ Handler
    /\ resizes < MaxResizes
    /\ resizes' = resizes + 1
    /\ Resized
    /\ UNCHANGED <<rules, userVars>>

\* the reset button
reset ==
    /\ UserCommand
    /\ rules' = DefaultRules
    /\ Resized
    /\ UNCHANGED resizes

NextPage ==
    \/ \E d \in PageDims : ShowCanvas(d[1], d[2])
    \/ resizeHandler
    \/ reset
    \/ LoopSwitch
    \/ TimerFire
    \/ \E index \in Cells(xLen, yLen) : switchCell(index)
    \/ \E k \in RuleKeys : switchRule(k[1], k[2])
    \/ \E p \in 1 .. MaxPasses : Random(p)
    \/ Clear
    \/ \E i \in Workers : WorkerReceive(i)
    \/ \E i \in Workers : WorkerComplete(i)
    \/ \E i \in Workers : Relay(i)
    \/ PolicyStep

SpecPage == InitPage /\ [][NextPage]_vars


\* C22: the canvas is revealed and the alive-cell count computed only after
\* all N workers have completed Init for the current grid: canvasVisible is
\* never true while a worker's Init is outstanding, also after a resize.
C22_RevealAfterInit ==
    canvasVisible => \A i \in Workers : ~Outstanding(i, {INIT})


\* a step of a worker script: it takes a message or ends a command
WorkerStep == \E i \in Workers : cur'[i] # cur[i]

\* C23: the role indicator is written only by the coordinator: no command
\* a worker handles (Init, Evolve, Render, ChangeRules, Random, Clear or an
\* unknown one) changes it; it changes only in switchIndication of relay's
\* policy.
C23_IndicatorCoordinatorOnly ==
    [][/\ WorkerStep => indication' = indication
       /\ indication' # indication =>
              (todo # <<>> /\ Head(todo) = "switchIndication")]_vars

\* both workers have evolved and the coordinator has exchanged the roles
C23_Witness ==
    /\ fired.tag = EVOLVE
    /\ indication = 1
    /\ \A i \in Workers : cur[i].type = NONE /\ outbox[i] = <<>>


\* the rule set worker i will hold once it has handled what it has been
\* sent so far: that of the last <INIT> or <CHANGE-RULES> sent, if any
RECURSIVE LastRules(_, _)
LastRules(msgs, held) ==
    IF msgs = <<>> THEN held
    ELSE LET m == msgs[Len(msgs)]
         IN IF m.type \in {INIT, CHANGERULES} THEN m.input.rules
            ELSE LastRules(SubSeq(msgs, 1, Len(msgs) - 1), held)

RulesAhead(i) ==
    LastRules((IF cur[i].type = NONE THEN <<>> ELSE <<cur[i]>>) \o pool[i],
              wRules[i])

\* C24: for each Evolve broadcast every worker evolves its partition with
\* the same rule set, the coordinator's at the time the Evolve is dispatched:
\* when an Evolve is queued, the rule set each worker holds after the
\* messages queued before it is the coordinator's.
C24_RulesConsistent ==
    [][Dispatch(EVOLVE) => \A i \in Workers : RulesAhead(i) = rules']_vars


\* C25: from the all-zero grid, after any sequence of evolve, swap, random,
\* clear, cell toggle, draw and re-initialisation every entry of leftArray
\* and rightArray is 0 or 1; the marker 2 occurs only in lastStateArray.
C25_CellValues ==
    \A k \in Cells(xLen, yLen) :
        /\ leftArray[k] \in {0, 1}
        /\ rightArray[k] \in {0, 1}
        /\ lastStateArray[k] \in {0, 1, 2}

\* a re-initialisation of a grid with an alive cell has marked lastStateArray
C25_Witness ==
    /\ \E k \in Cells(xLen, yLen) : lastStateArray[k] = 2
    /\ \E k \in Cells(xLen, yLen) : getCurrent[k] = 1
    /\ resizes > 0


\* everything dispatched has been handled and acknowledged
Quiet ==
    /\ BarrierReached(waiting)
    /\ todo = <<>>
    /\ \A i \in Workers : ~Busy(i)

\* C26: once the loop is stopped no Evolve is dispatched until it is started
\* again: an armed timer that fires dispatches nothing and continue() does
\* not arm the timer; the commands in flight run to completion, after which
\* waiting is back at N.
C26_Cancellation ==
    /\ [][/\ Dispatch(EVOLVE) => running'
          /\ (~running /\ ~running') =>
                 /\ timerArmed' => timerArmed
                 /\ (timerArmed /\ ~timerArmed') =>
                        (pool' = pool /\ waiting' = waiting)]_vars
    /\ (~running ~> (running \/ Quiet))

\* the loop was stopped with the timer armed
C26_Witness ==
    /\ ~running
    /\ timerArmed
    /\ indication = 1
    /\ Quiet

(***************************************************************************)
(* The program with workers whose relay may throw.  relay is an async      *)
(* function: what it throws arrives at the worker's unhandledrejection     *)
(* listener, which posts an <ERROR>; the <WAITING-AFTER> at the end of     *)
(* relay is not reached.                                                   *)
(***************************************************************************)
\* variant: a worker that still acknowledges the command that threw
FaultNotificationsCompleting(type) ==
    <<Msg(ERROR, type), Msg(WAITINGAFTER, type)>>

\* what the worker posts for a command of type `type` that threw
FaultNotifications(type) == <<Msg(ERROR, type)>>

\* the command in progress throws, before or after its effect
WorkerFault(i) ==
    /\ cur[i].type # NONE
    /\ \/ UNCHANGED <<gridVars, wScope, wRules, wBuffer>>
       \/ WorkerEffect(i, cur[i])
    /\ outbox' = [outbox EXCEPT ![i] = @ \o FaultNotifications(cur[i].type)]
    /\ cur' = [cur EXCEPT ![i] = NoMsg]
    /\ faulted' = faulted \cup {i}
    /\ Forget
    /\ UNCHANGED <<coordVars, userVars, sent, acked, tick, partVars, callVars,
                   sharedBuffer, resizes, terminated, frequencyValue, hzTimer>>

NextFault ==
    \/ Next
    \/ \E i \in Workers : WorkerFault(i)

SpecFault == Init /\ [][NextFault]_vars

\* relay handles an <ERROR>
ErrorRelayed ==
    \E i \in Workers :
        /\ outbox[i] # <<>>
        /\ Head(outbox[i]).type = ERROR
        /\ outbox'[i] = Tail(outbox[i])

\* C27: once a worker has failed in a command and posted no completion,
\* waiting < N in every later state and relay's policy never runs again (no
\* swap, no Render broadcast by the policy, no timer armed); the coordinator
\* only logs the fault: it posts nothing and leaves waiting alone.
C27_FaultStallsBarrier ==
    /\ [](faulted # {} => (waiting < count /\ todo = <<>>))
    /\ [][/\ faulted # {} =>
                 /\ indication' = indication
                 /\ timerArmed' => timerArmed
          /\ ErrorRelayed => (pool' = pool /\ waiting' = waiting)]_vars

\* every command has been handled, the fault has been logged, and the
\* barrier is one completion short
C27_Witness ==
    /\ faulted # {}
    /\ \A i \in Workers : ~Busy(i)
    /\ waiting = count - 1
    /\ canvasVisible


\* a step that queues an <INIT> at worker i
InitSent(i) ==
    /\ Len(pool'[i]) > Len(pool[i])
    /\ pool'[i][Len(pool'[i])].type = INIT

\* C28: every worker receives Init exactly once in its lifetime, while it is
\* uninitialised (a resize terminates the pool and creates a fresh one):
\* Init is never sent to a worker that has been sent an Init before, is
\* initialised, or has commands in flight.
C28_InitOnce ==
    [][\A i \in Workers :
           InitSent(i) =>
               /\ wBuffer[i] = NoBuffer
               /\ ~Outstanding(i, CommandTags)]_vars

(***************************************************************************)
(* The page until and after onDestroy.  frequencyController.change arms    *)
(* timers that repeat the change while the button is held; onDestroy does  *)
(* not clear them.  After onDestroy the component's handlers are gone, the *)
(* workers are terminated and their listeners aborted.                     *)
(***************************************************************************)
\* frequencyController.max (300 in the page)
FrequencyMax == 3

\* performChange: the value after one change
performChange(value, increment) ==
    IF increment /\ value < FrequencyMax THEN value + 1
    ELSE IF value # 1 THEN value - 1
    ELSE value

\* the timer that repeats the change: armed unless the value is at either
\* end of its range
HzTimerAfter(value, increment) ==
    IF value # 1 /\ value # FrequencyMax
    THEN (IF increment THEN "increment" ELSE "decrement")
    ELSE NONE

\* frequencyController.change(increment): a mousedown on a Hz button
FrequencyPress(increment) ==
    /\ UserCommand
    /\ hzTimer = NONE
    /\ frequencyValue' = performChange(frequencyValue, increment)
    /\ hzTimer' = HzTimerAfter(frequencyValue', increment)
    /\ SetPostState(run(PostState, running))
    /\ tick' = RunTick(running)
    /\ sent' = RunSent(running)
    /\ fired' = NoFire
    /\ UNCHANGED <<gridVars, rules, aliveCells, canvasDOM, canvasVisible,
                   running, timerArmed, todo, workerVars, acked, partVars,
                   callVars, sharedBuffer, wBuffer, resizes, faulted,
                   terminated>>

\* the mouseup listener of document.body: clearTimeout, buttonHzIsDown = false
MouseUp ==
    /\ hzTimer # NONE
    /\ hzTimer' = NONE
    /\ UNCHANGED <<gridVars, coordVars, userVars, workerVars, histVars,
                   partVars, callVars, sharedBuffer, wBuffer, resizes,
                   faulted, terminated, frequencyValue>>

\* the timer fires: performChange(increment, true), which repeats itself
\* while the button is down and ends with loop.run()
HzTimerFire ==
    /\ Handler
    /\ hzTimer # NONE
    /\ frequencyValue' = performChange(frequencyValue, hzTimer = "increment")
    /\ hzTimer' = HzTimerAfter(frequencyValue', hzTimer = "increment")
    /\ SetPostState(run(PostState, running))
    /\ tick' = RunTick(running)
    /\ sent' = RunSent(running)
    /\ fired' = NoFire
    /\ UNCHANGED <<gridVars, rules, aliveCells, canvasDOM, canvasVisible,
                   running, timerArmed, todo, userVars, workerVars, acked,
                   partVars, callVars, sharedBuffer, wBuffer, resizes,
                   faulted, terminated>>

\* onDestroy: clearTimeout(loop.timerID), workersController.terminate()
onDestroy ==
    /\ Handler
    /\ ~terminated
    /\ terminated' = TRUE
    /\ timerArmed' = FALSE
    /\ fired' = NoFire
    /\ UNCHANGED <<gridVars, waiting, pool, rules, aliveCells, canvasDOM,
                   canvasVisible, running, todo, userVars, workerVars, sent,
                   acked, tick, partVars, callVars, sharedBuffer, wBuffer,
                   resizes, faulted, frequencyValue, hzTimer>>

NextDestroy ==
    \/ ~terminated /\ \E d \in NodeDims : ShowCanvas(d[1], d[2])
    \/ ~terminated /\ LoopSwitch
    \/ ~terminated /\ TimerFire
    \/ ~terminated /\ \E increment \in BOOLEAN : FrequencyPress(increment)
    \/ ~terminated /\ \E index \in Cells(xLen, yLen) : switchCell(index)
    \/ ~terminated /\ \E i \in Workers : WorkerReceive(i)
    \/ ~terminated /\ \E i \in Workers : WorkerComplete(i)
    \/ ~terminated /\ \E i \in Workers : Relay(i)
    \/ ~terminated /\ PolicyStep
    \/ MouseUp
    \/ HzTimerFire
    \/ onDestroy

SpecDestroy == Init /\ [][NextDestroy]_vars

\* C29: after teardown no completion is processed any more: waiting and the
\* role indicator never change again and no Evolve or Render is dispatched,
\* also with commands in flight at shutdown.
C29_Shutdown ==
    [][terminated =>
           /\ waiting' = waiting
           /\ indication' = indication
           /\ ~Dispatch(EVOLVE)
           /\ ~Dispatch(RENDER)]_vars

(***************************************************************************)
(* threadsN on its own, for every hint a browser may give.                 *)
(***************************************************************************)
\* largest navigator.hardwareConcurrency
MaxHint == 128

Hints == {UNDEFINED} \cup (0 .. MaxHint)

InitThreads == InitProgram /\ InitPartition /\ InitCall

\* the component is set up on a machine with this hint: threadsN, then the
\* workersController literal with count and waiting
ThreadsCall(hardwareConcurrency) ==
    /\ call' = [op |-> "threadsN",
                hardwareConcurrency |-> hardwareConcurrency,
                count |-> threadsN(hardwareConcurrency),
                waiting |-> threadsN(hardwareConcurrency)]
    /\ UNCHANGED <<gridVars, coordVars, userVars, workerVars, histVars,
                   partVars, lifeVars>>

NextThreads == \E hardwareConcurrency \in Hints :
                   ThreadsCall(hardwareConcurrency)

SpecThreads == InitThreads /\ [][NextThreads]_vars

\* C30: N is the hardware-parallelism hint minus one when the hint is at
\* least 2, and 4 - 1 = 3 when the hint is absent, 0 or 1; so N >= 1 for
\* every hint, and waiting is initialised to N.
C30_WorkerCount ==
    call.op = "threadsN" =>
        /\ \A h \in 2 .. MaxHint :
              call.hardwareConcurrency = h => call.count = h - 1
        /\ call.hardwareConcurrency \in {UNDEFINED, 0, 1} => call.count = 3
        /\ call.count >= 1
        /\ call.waiting = call.count

\* the fallback for a single-core hint
C30_Witness ==
    /\ call.op = "threadsN"
    /\ call.hardwareConcurrency = 1
    /\ call.count = 3

(***************************************************************************)
(* The loop object and frequencyController on their own, with a clock.     *)
(* The workers are left out: a Render or <CHANGE-RULES> barrier is an      *)
(* event that calls loop.continue().  call holds the fields of loop that   *)
(* the page model abstracts: performance.now(), lastRunTime, the timers    *)
(* created by continue() that have neither fired nor been cleared, and     *)
(* whether the one named by timerID is among them.  Times are in ms; the   *)
(* two quantities derived from 1000 / value are kept multiplied by value,  *)
(* which is at least 1, so that they stay integers.                        *)
(***************************************************************************)
\* the 1000 of loop.continue
Second == 1000
\* the clock advances by this many ms at a time, up to MaxNow
Quantum == 250
MaxNow == 1500
\* Evolve broadcasts dispatched and not yet followed by a barrier
MaxEvolves == 2
\* frequencyController.bigIncrementSize (30 in the page)
BigIncrementSize == 1

\* timeMS of continue(), times value
timeMS(value, timeDeltaFromLast) == Second - value * timeDeltaFromLast

\* variant: the delay handed to setTimeout without the test timeMS > 0
setTimeoutDelayUnclamped(ms) == ms

\* timeMS > 0 ? timeMS : 0
setTimeoutDelay(ms) == IF ms > 0 THEN ms ELSE 0

InitLoop ==
    /\ InitProgram
    /\ InitPartition
    /\ call = [op |-> NONE, now |-> 0, lastRunTime |-> 0, timeDelta |-> 0,
               value |-> 1, delay |-> 0, tickTimers |-> 0,
               timerIDLive |-> FALSE, evolves |-> 0, chains |-> {}]

\* what the loop model leaves alone
LoopFrame ==
    UNCHANGED <<gridVars, waiting, pool, rules, canvasDOM, canvasVisible,
                todo, userVars, workerVars, histVars, partVars, sharedBuffer,
                wBuffer, resizes, faulted, terminated>>

\* loop.run() called by `chain` ("tick", "hz" for the two timers, "user" for
\* a handler of the page): call after it
LoopRun(c, isRunning, chain) ==
    IF isRunning
    THEN [c EXCEPT !.lastRunTime = c.now,
                   !.evolves = @ + 1,
                   !.chains = @ \cup {chain}]
    ELSE c

CanRun(isRunning) == isRunning => call.evolves < MaxEvolves

\* the time passes
Elapse ==
    /\ call.now + Quantum <= MaxNow
    /\ call' = [call EXCEPT !.op = "elapse", !.now = @ + Quantum]
    /\ UNCHANGED <<running, timerArmed, aliveCells, frequencyValue, hzTimer>>
    /\ LoopFrame

\* loop.switch()
LoopSwitchTimed ==
    /\ CanRun(~running)
    /\ running' = ~running
    /\ call' = [LoopRun(call, ~running, "user") EXCEPT !.op = "switch"]
    /\ aliveCells' = IF running THEN AliveCount(getCurrent) ELSE aliveCells
    /\ UNCHANGED <<timerArmed, frequencyValue, hzTimer>>
    /\ LoopFrame

\* relay at a Render or <CHANGE-RULES> barrier: loop.continue()
LoopContinue ==
    /\ LET timeDeltaFromLast == call.now - call.lastRunTime
           ms == timeMS(frequencyValue, timeDeltaFromLast)
           cleared == IF call.timerIDLive THEN call.tickTimers - 1
                      ELSE call.tickTimers
       IN call' = IF running
                  THEN [call EXCEPT !.op = "continue",
                                    !.timeDelta = timeDeltaFromLast,
                                    !.value = frequencyValue,
                                    !.delay = setTimeoutDelay(ms),
                                    !.tickTimers = cleared + 1,
                                    !.timerIDLive = TRUE,
                                    !.evolves = 0,
                                    !.chains = {}]
                  ELSE [call EXCEPT !.op = "continue", !.evolves = 0,
                                    !.chains = {}]
    /\ timerArmed' = (call'.tickTimers > 0)
    /\ aliveCells' = IF running THEN aliveCells ELSE AliveCount(getCurrent)
    /\ UNCHANGED <<running, frequencyValue, hzTimer>>
    /\ LoopFrame

\* a timer of continue() fires: the one named by timerID, or an older one
\* if any is left
TickTimerFire(latest) ==
    /\ call.tickTimers > 0
    /\ latest = call.timerIDLive
    /\ CanRun(running)
    /\ call' = [LoopRun(call, running, "tick") EXCEPT
                    !.op = "timer",
                    !.tickTimers = @ - 1,
                    !.timerIDLive = IF latest THEN FALSE ELSE @]
    /\ timerArmed' = (call'.tickTimers > 0)
    /\ UNCHANGED <<running, aliveCells, frequencyValue, hzTimer>>
    /\ LoopFrame

\* frequencyController.change(increment)
FrequencyPressTimed(increment) ==
    /\ hzTimer = NONE
    /\ CanRun(running)
    /\ frequencyValue' = performChange(frequencyValue, increment)
    /\ hzTimer' = HzTimerAfter(frequencyValue', increment)
    /\ call' = [LoopRun(call, running, "user") EXCEPT !.op = "change"]
    /\ UNCHANGED <<running, timerArmed, aliveCells>>
    /\ LoopFrame

\* the mouseup listener
MouseUpTimed ==
    /\ hzTimer # NONE
    /\ hzTimer' = NONE
    /\ call' = [call EXCEPT !.op = "mouseup"]
    /\ UNCHANGED <<running, timerArmed, aliveCells, frequencyValue>>
    /\ LoopFrame

\* the timer of a held Hz button fires: performChange(increment, true)
HzTimerFireTimed ==
    /\ hzTimer # NONE
    /\ CanRun(running)
    /\ frequencyValue' = performChange(frequencyValue, hzTimer = "increment")
    /\ hzTimer' = HzTimerAfter(frequencyValue', hzTimer = "increment")
    /\ call' = [LoopRun(call, running, "hz") EXCEPT !.op = "hz"]
    /\ UNCHANGED <<running, timerArmed, aliveCells>>
    /\ LoopFrame

\* frequencyController.bigIncrement(): the value after it
bigIncrement(value) ==
    IF value < FrequencyMax - BigIncrementSize
    THEN (IF value = 1 THEN value + BigIncrementSize - 1
          ELSE value + BigIncrementSize)
    ELSE IF value # FrequencyMax THEN FrequencyMax
    ELSE 1

BigIncrementTimed ==
    /\ CanRun(running)
    /\ frequencyValue' = bigIncrement(frequencyValue)
    /\ call' = [LoopRun(call, running, "user") EXCEPT !.op = "bigIncrement"]
    /\ UNCHANGED <<running, timerArmed, aliveCells, hzTimer>>
    /\ LoopFrame

NextLoop ==
    \/ Elapse
    \/ LoopSwitchTimed
    \/ LoopContinue
    \/ \E latest \in BOOLEAN : TickTimerFire(latest)
    \/ \E increment \in BOOLEAN : FrequencyPressTimed(increment)
    \/ MouseUpTimed
    \/ HzTimerFireTimed
    \/ BigIncrementTimed

SpecLoop == InitLoop /\ [][NextLoop]_vars

\* C31: the timer armed by continue() is given the delay
\* max(0, 1000 / frequency - elapsed), elapsed being the time since the last
\* run(): it is never negative, and it is 0 whenever the tick took at least
\* 1000 / frequency ms (all three compared after multiplying by frequency).
C31_TickDelay ==
    (call.op = "continue" /\ running) =>
        /\ call.timeDelta = call.now - call.lastRunTime
        /\ call.value = frequencyValue
        /\ call.delay >= 0
        /\ call.value * call.timeDelta >= Second => call.delay = 0
        /\ call.value * call.timeDelta < Second =>
               call.delay = Second - call.value * call.timeDelta
        /\ call.timerIDLive

\* a tick at 2 Hz that took 750 ms: the next one is due at once
C31_Witness ==
    /\ call.op = "continue"
    /\ running
    /\ call.value = 2
    /\ call.timeDelta = 750
    /\ call.delay = 0

\* the timers created by continue() that are still to fire
TickTimers == call.tickTimers

\* the timer chains whose Evolve broadcasts are outstanding together
TimerChains == call.chains \cap {"tick", "hz"}

\* C33: at most one tick timer is armed at any time, for any sequence of
\* barriers, loop switches and frequency changes, so that Evolve broadcasts
\* dispatched by two timer chains are never outstanding together.
C33_OneTimerChain ==
    /\ TickTimers <= 1
    /\ Cardinality(TimerChains) <= 1

\* C32: draw() touches exactly the cells of the worker's own partition whose
\* current() value differs from lastStateArray: one drawCell if the value is
\* nonzero or one clearCell if it is zero, and lastStateArray[index] set to
\* the value; no operation on any other cell, no write of lastStateArray
\* outside [start, end), and no write of the two cell arrays or of the
\* indicator.
C32_DrawFrame ==
    [][call'.op = "draw" =>
          LET i == call'.worker
              At(k) == {n \in DOMAIN call'.ops : call'.ops[n].index = k}
          IN /\ \A k \in Cells(xLen, yLen) :
                   IF InScope(i, k) /\ getCurrent[k] # lastStateArray[k]
                   THEN /\ Cardinality(At(k)) = 1
                        /\ \A n \in At(k) :
                              call'.ops[n].op = IF getCurrent[k] # 0
                                                THEN "drawCell"
                                                ELSE "clearCell"
                        /\ lastStateArray'[k] = getCurrent[k]
                   ELSE /\ At(k) = {}
                        /\ lastStateArray'[k] = lastStateArray[k]
             /\ leftArray' = leftArray
             /\ rightArray' = rightArray
             /\ indication' = indication]_vars

\* a draw() that stamped one cell and cleared another, and left a stale
\* entry of lastStateArray outside the worker's partition as it was
C32_Witness ==
    /\ call.op = "draw"
    /\ \E n, m \in DOMAIN call.ops :
          call.ops[n].op = "drawCell" /\ call.ops[m].op = "clearCell"
    /\ \E k \in Cells(xLen, yLen) :
          /\ ~InScope(call.worker, k)
          /\ call.last[k] # getCurrent[k]
          /\ lastStateArray[k] = call.last[k]

\* the page at rest: the <INIT> barrier has been passed, the loop is stopped,
\* no command is outstanding and relay's policy has run to its end
Quiescent ==
    /\ canvasVisible
    /\ ~running
    /\ waiting = count
    /\ todo = <<>>

\* C34: the canvas reflects the grid at quiescence: whenever the <INIT>
\* barrier has been passed, the loop is stopped and no command is outstanding
\* (waiting = N), lastStateArray equals current() on every cell, after any
\* sequence of user actions and any interleaving of worker completions.
C34_CanvasAtQuiescence ==
    Quiescent =>
        \A k \in Cells(xLen, yLen) : lastStateArray[k] = getCurrent[k]

\* C35: the displayed alive-cell count is exact at quiescence: whenever the
\* <INIT> barrier has been passed, the loop is stopped and waiting = N,
\* aliveCells is the number of entries of current() equal to 1.
C35_AliveCountAtQuiescence ==
    Quiescent => aliveCells = AliveCount(getCurrent)

\* at rest after a change of the grid, with a live cell counted
C35_Witness ==
    /\ Quiescent
    /\ userCommands > 0
    /\ aliveCells = 1
    /\ \A i \in Workers : ~Busy(i)

(***************************************************************************)
(* relay's counter on its own, run twice over the same dispatches.  From   *)
(* the page at rest the coordinator posts a sequence of commands; every    *)
(* worker handles its queue in order and posts one completion per command; *)
(* the completions of different workers reach relay in any order.          *)
(***************************************************************************)
\* commands dispatched before the first completion comes back
MaxDispatches == 2

\* post(specificWorker, msg) as the handlers of the page call it
OrderDispatches ==
    {[specificWorker |-> -1, msg |-> Msg(type, NoInput)] :
        type \in {EVOLVE, RENDER, CLEAR}}
    \cup {[specificWorker |-> -1, msg |-> Msg(CHANGERULES, DefaultRules)]}
    \cup {[specificWorker |-> i, msg |-> Msg(RANDOM, 1)] : i \in Workers}

OrderScenarios ==
    UNION {[1 .. n -> OrderDispatches] : n \in 1 .. MaxDispatches}

\* pool and waiting after the dispatches
RECURSIVE PostAll(_, _)
PostAll(st, dispatches) ==
    IF dispatches = <<>> THEN st
    ELSE PostAll(Post(st, Head(dispatches).specificWorker,
                      Head(dispatches).msg),
                 Tail(dispatches))

\* the orders in which the completions can arrive: the worker of the first,
\* of the second, ...; each worker as often as it has commands
ArrivalOrders(queues) ==
    LET total == Cardinality({<<i, n>> \in Workers \X (1 .. MaxDispatches) :
                                 n <= Len(queues[i])})
    IN {order \in [1 .. total -> Workers] :
           \A i \in Workers :
              Cardinality({n \in 1 .. total : order[n] = i}) = Len(queues[i])}

\* the inner switch of relay: the operations and the indicator after them
Transition(tag, ind) ==
    [tag |-> tag,
     policy |-> Policy(tag),
     indication |-> IF \E n \in DOMAIN Policy(tag) :
                          Policy(tag)[n] = "switchIndication"
                    THEN switchIndication(ind) ELSE ind]

\* relay called for the completions from the n-th on, up to the barrier
RECURSIVE RelayFrom(_, _, _, _, _)
RelayFrom(queues, w, ind, order, n) ==
    IF n > Len(order)
    THEN [tag |-> NONE, policy |-> <<>>, indication |-> ind]
    ELSE LET i == order[n]
             tag == Head(queues[i]).type
         IN IF BarrierReached(w + 1)
            THEN Transition(tag, ind)
            ELSE RelayFrom([queues EXCEPT ![i] = Tail(@)], w + 1, ind,
                           order, n + 1)

\* the same dispatches, their completions arriving in two orders
OrderCall(dispatches, a, b) ==
    /\ call = NoCall
    /\ LET st == PostAll(PostState, dispatches)
       IN /\ a \in ArrivalOrders(st.pool)
          /\ b \in ArrivalOrders(st.pool)
          /\ call' = [op |-> "relay",
                      dispatches |-> dispatches,
                      a |-> a,
                      b |-> b,
                      first |-> RelayFrom(st.pool, st.waiting, indication,
                                          a, 1),
                      second |-> RelayFrom(st.pool, st.waiting, indication,
                                           b, 1)]
    /\ UNCHANGED <<gridVars, coordVars, userVars, workerVars, histVars,
                   partVars, lifeVars>>

NextOrder ==
    \E dispatches \in OrderScenarios :
       \E a, b \in [1 .. MaxDispatches * count -> Workers]
                   \cup UNION {[1 .. n -> Workers] :
                                  n \in 1 .. MaxDispatches * count} :
          OrderCall(dispatches, a, b)

SpecOrder == Init /\ [][NextOrder]_vars

\* C36: the phase transition taken at a barrier does not depend on the
\* arrival order of the completions: for a fixed sequence of dispatches,
\* every interleaving of the workers' completions leads to the same
\* transition (swap then Render, Render without swap, or continue) and to
\* the same final indicator.
C36_ArrivalOrderIndependence ==
    call.op = "relay" =>
        /\ call.first.policy = call.second.policy
        /\ call.first.indication = call.second.indication

====
